---- MODULE Spec2Model ----
(***************************************************************************)
(* Model of the shredding engine of the "brain" document database: the     *)
(* structure layer (specification table, per-field tables) and the logic   *)
(* layer (modify, insert, delete, create, repair) of src/brain/logic.py.   *)
(***************************************************************************)
EXTENDS Integers, Sequences, FiniteSets, Bags, TLC

(***************************************************************************)
(* Bounds of the model.                                                    *)
(***************************************************************************)
\* largest list index a request may leave in use
MaxIndex == 2
\* largest number of rows (over all per-field tables) a request may leave
MaxRows == 3
\* longest list of a document handed to the field codec
MaxLen == 2
\* deepest nesting of a condition tree handed to the normaliser
MaxDepth == 2
\* most requests waiting in an asynchronous transaction
MaxPending == 2
\* most fields of a document whose fields are built in every order
MaxFields == 5

(***************************************************************************)
(* Names, values, fields.                                                  *)
(***************************************************************************)
\* a name element is a string key, a list index or None (the wildcard)
K(s) == [s |-> s, i |-> -1]
I(n) == [s |-> "#", i |-> n]
None == [s |-> "*", i |-> -1]

isStr(e) == e.s \notin {"#", "*"}
isInt(e) == e.s = "#"

\* typed values: py_value with its type_str
Null == [type |-> "null", value |-> "None"]
EmptyMap == [type |-> "map", value |-> "{}"]
EmptyList == [type |-> "list", value |-> "[]"]
StrVal(v) == [type |-> "str", value |-> v]
IntVal(v) == [type |-> "int", value |-> v]

Field(name, val) == [name |-> name, type |-> val.type, value |-> val.value]

\* name with list indexes replaced by the wildcard placeholder
name_str_no_type(name) == [k \in DOMAIN name |-> IF isStr(name[k]) THEN name[k] ELSE None]

\* name of the per-field table of a typed field
name_str(name, type) == [field |-> name_str_no_type(name), type |-> type]

determined(name) == \A k \in DOMAIN name : name[k] # None

pointsToListElement(name) == Len(name) > 0 /\ isInt(name[Len(name)])

\* " AND c<k>=<index>" for every list index given in the name, as a predicate on a row name
columns_condition(cname, rname) ==
    \A k \in DOMAIN cname : isInt(cname[k]) => (k \in DOMAIN rname /\ rname[k] = cname[k])

\* condition on the list indexes before the last one
renumber_condition(cname, rname) ==
    columns_condition([cname EXCEPT ![Len(cname)] = None], rname)

IsPrefix(p, q) == Len(p) <= Len(q) /\ \A k \in DOMAIN p : p[k] = q[k]

\* name with its first Len(prefix) elements replaced by prefix
withPrefix(prefix, name) == [k \in DOMAIN name |-> IF k <= Len(prefix) THEN prefix[k] ELSE name[k]]

(***************************************************************************)
(* The database: specification table, existing per-field tables, rows of   *)
(* the per-field tables (a bag), and the error raised so far, if any.      *)
(***************************************************************************)
VARIABLES id_table, tables, rows, last

\* the field codec at work: the document given, its flat list of fields, the
\* tree built from the list
VARIABLES document, fields_flat, tree

\* the condition normaliser at work: the condition given, and the results of
\* propagating the inversion once and once more
VARIABLES search_condition, propagated

\* the specification table as it was before it was damaged, and the damage
VARIABLES before

\* the Connection: its fields _transaction, _sync and _requests, the engine's
\* transaction (open, and the database as it was at begin), and the last call
\* made on the connection with its outcome
VARIABLES transaction, sync, requests, engine, call

\* two Connections on one database, statement by statement: the specification
\* rows of one (id, field, type) as the sequence of their refcounts and the
\* number of rows of its field table, the connection whose engine transaction
\* is open (0: none) and the database as it was at its begin, whether a handler
\* was ever started outside of an engine transaction, and of each Connection
\* its fields, the handlers left to run and the place in the one that is running
VARIABLES pair

vars == <<id_table, tables, rows, last, document, fields_flat, tree, search_condition,
          propagated, before, transaction, sync, requests, engine, call, pair>>

\* dv_ok: every deleteValues so far returned with no empty table left behind
DB(s, t, r, e) == [id_table |-> s, tables |-> t, rows |-> r, err |-> e, dv_ok |-> TRUE]

\* Python's None as a result
NoResult == [none |-> TRUE]

\* run F on db unless an exception is already propagating
Bind(db, F(_)) == IF db.err # "" THEN db ELSE F(db)

Raise(db, e) == [db EXCEPT !.err = e]

RECURSIVE FoldSet(_, _, _)
FoldSet(Op(_, _), base, S) ==
    IF S = {} THEN base
    ELSE LET x == CHOOSE y \in S : TRUE
         IN FoldSet(Op, Op(base, x), S \ {x})

RECURSIVE FoldSeq(_, _, _)
FoldSeq(Op(_, _), base, seq) ==
    IF seq = <<>> THEN base
    ELSE FoldSeq(Op, Op(base, Head(seq)), Tail(seq))

RECURSIVE SumOver(_, _)
SumOver(B, S) ==
    IF S = {} THEN 0
    ELSE LET x == CHOOSE y \in S : TRUE
         IN B[x] + SumOver(B, S \ {x})

\* the rows of a bag that satisfy P, with their multiplicities
Select(B, P(_)) == [r \in {x \in DOMAIN B : P(x)} |-> B[r]]

BagSize(B) == SumOver(B, DOMAIN B)

tableOf(row) == name_str(row.name, row.type)

(***************************************************************************)
(* _StructureLayer                                                         *)
(***************************************************************************)
specRows(db, id, name) ==
    {x \in db.id_table : x.id = id /\ x.field = name_str_no_type(name)}

getValueTypes(db, id, name) == {x.type : x \in specRows(db, id, name)}

\* mutant: the UPDATE of an existing counter is lost
increaseRefcount_NoUpdate(db, id, field) ==
    IF field.type \notin getValueTypes(db, id, field.name)
    THEN [db EXCEPT !.id_table = @ \cup
             {[id |-> id, field |-> name_str_no_type(field.name),
               type |-> field.type, refcount |-> 1]}]
    ELSE db

increaseRefcount(db, id, field) ==
    LET new_type == field.type \notin getValueTypes(db, id, field.name)
        hit(x) == x.id = id /\ x.field = name_str_no_type(field.name) /\ x.type = field.type
    IN IF new_type
       THEN [db EXCEPT !.id_table = @ \cup
                {[id |-> id, field |-> name_str_no_type(field.name),
                  type |-> field.type, refcount |-> 1]}]
       ELSE [db EXCEPT !.id_table =
                {IF hit(x) THEN [x EXCEPT !.refcount = @ + 1] ELSE x : x \in @}]

\* mutant: the counter row is never deleted, only decreased
decreaseRefcount_KeepRow(db, id, field, num) ==
    LET hit(x) == x.id = id /\ x.field = name_str_no_type(field.name) /\ x.type = field.type
    IN IF {x \in db.id_table : hit(x)} = {} THEN Raise(db, "IndexError")
       ELSE [db EXCEPT !.id_table =
                {IF hit(x) THEN [x EXCEPT !.refcount = @ - num] ELSE x : x \in @}]

decreaseRefcount(db, id, field, num) ==
    LET hit(x) == x.id = id /\ x.field = name_str_no_type(field.name) /\ x.type = field.type
        l == {x \in db.id_table : hit(x)}
    IN IF l = {} THEN Raise(db, "IndexError")
       ELSE IF (CHOOSE x \in l : TRUE).refcount = num
       THEN [db EXCEPT !.id_table = {x \in @ : ~hit(x)}]
       ELSE [db EXCEPT !.id_table =
                {IF hit(x) THEN [x EXCEPT !.refcount = @ - num] ELSE x : x \in @}]

assureFieldTableExists(db, field) ==
    [db EXCEPT !.tables = @ \cup {name_str(field.name, field.type)}]

addValueRecord(db, id, field) ==
    IF name_str(field.name, field.type) \notin db.tables \/ ~determined(field.name)
    THEN Raise(db, "EngineError")
    ELSE [db EXCEPT !.rows = @ (+) SetToBag({[id |-> id, name |-> field.name,
                                              type |-> field.type, value |-> field.value]})]

tableIsEmpty(db, tbl) == \A r \in DOMAIN db.rows : tableOf(r) # tbl

\* mutant: the emptied table is not dropped
deleteValuesOfType_NoDrop(db, id, name, cname, type) ==
    LET tbl == name_str(name, type)
        sel(r) == tableOf(r) = tbl /\ r.id = id /\ columns_condition(cname, r.name)
        del_num == BagSize(Select(db.rows, sel))
    IN IF tbl \notin db.tables THEN Raise(db, "EngineError")
       ELSE IF del_num > 0
       THEN LET d1 == decreaseRefcount(db, id, [name |-> name, type |-> type], del_num)
            IN IF d1.err # "" THEN d1
               ELSE [d1 EXCEPT !.rows = Select(@, LAMBDA r : ~sel(r))]
       ELSE db

\* deletion of the rows of one type, inside the loop of deleteValues
deleteValuesOfType(db, id, name, cname, type) ==
    LET tbl == name_str(name, type)
        sel(r) == tableOf(r) = tbl /\ r.id = id /\ columns_condition(cname, r.name)
        del_num == BagSize(Select(db.rows, sel))
    IN IF tbl \notin db.tables THEN Raise(db, "EngineError")
       ELSE IF del_num > 0
       THEN LET d1 == decreaseRefcount(db, id, [name |-> name, type |-> type], del_num)
                d2 == [d1 EXCEPT !.rows = Select(@, LAMBDA r : ~sel(r))]
            IN IF d1.err # "" THEN d1
               ELSE IF tableIsEmpty(d2, tbl)
                    THEN [d2 EXCEPT !.tables = @ \ {tbl}]
                    ELSE d2
       ELSE db

\* cname carries the condition: the name whose list indexes select the rows
deleteValues(db, id, name, cname) ==
    LET types == getValueTypes(db, id, name)
        res == FoldSet(LAMBDA d, type :
                          Bind(d, LAMBDA e : deleteValuesOfType(e, id, name, cname, type)),
                       db, types)
    IN [res EXCEPT !.dv_ok = @ /\ \A type \in types :
            name_str(name, type) \in res.tables => ~tableIsEmpty(res, name_str(name, type))]

\* names (with wildcards for list indexes) of the fields of an object;
\* prefix = <<None>> is not a name of the model, "no field given" is getAllFieldsList
getFieldsList_SelfOnly(db, id, name, exclude_self) ==
    IF exclude_self THEN {} ELSE {name}

getFieldsList(db, id, name, exclude_self) ==
    LET l == {x.field : x \in {y \in db.id_table : y.id = id /\
                    Len(y.field) > Len(name) /\ IsPrefix(name_str_no_type(name), y.field)}}
    IN {withPrefix(name, f) : f \in l} \cup (IF exclude_self THEN {} ELSE {name})

getAllFieldsList(db, id) == {x.field : x \in {y \in db.id_table : y.id = id}}

\* typed fields of the object at or under the mask
getFieldsInfo(db, id, mask) ==
    {[name |-> withPrefix(mask, x.field), type |-> x.type] :
        x \in {y \in db.id_table : y.id = id /\ IsPrefix(name_str_no_type(mask), y.field)}}

objectExists(db, id) == \E x \in db.id_table : x.id = id

\* rows (with multiplicity) read for a typed field, which may be a mask
getFieldValue(db, id, name, type) ==
    IF name_str(name, type) \notin db.tables THEN EmptyBag
    ELSE Select(db.rows, LAMBDA r : tableOf(r) = name_str(name, type) /\ r.id = id
                                    /\ columns_condition(name, r.name))

NoIndex == -1

\* mutant: the list always looks empty
getMaxListIndex_Empty(db, id, name) == NoIndex

getMaxListIndex(db, id, name) ==
    LET col == Len(name)
        flds == getFieldsInfo(db, id, name)
        sel == {r \in DOMAIN db.rows : r.id = id /\ renumber_condition(name, r.name)
                   /\ \E f \in flds : tableOf(r) = name_str(f.name, f.type)}
        idx == {r.name[col].i : r \in sel}
    IN IF idx = {} THEN NoIndex ELSE CHOOSE m \in idx : \A n \in idx : n <= m

objectHasField(db, id, name) ==
    IF Len(name) = 0 THEN TRUE
    ELSE \E type \in getValueTypes(db, id, name) :
            \E r \in DOMAIN db.rows : tableOf(r) = name_str(name, type) /\ r.id = id
                                      /\ columns_condition(name, r.name)

\* mutant: every refcount is 1
repairSupportTables_NoCount(db) ==
    [db EXCEPT !.id_table =
        {[id |-> r.id, field |-> tableOf(r).field, type |-> tableOf(r).type, refcount |-> 1]
         : r \in DOMAIN db.rows}]

\* mutant: the UPDATE is lost
renumberList_NoShift(db, id, target, name, shift) == db

\* UPDATE of the last list column of target in the tables of one child field
renumberList(db, id, target, name, shift) ==
    LET col == Len(target)
        types == getValueTypes(db, id, name)
        hit(r) == r.id = id /\ tableOf(r).field = name_str_no_type(name)
                  /\ tableOf(r).type \in types
                  /\ renumber_condition(target, r.name) /\ r.name[col].i >= target[col].i
        move(r) == IF hit(r) THEN [r EXCEPT !.name[col] = I(@.i + shift)] ELSE r
        img == {move(r) : r \in DOMAIN db.rows}
    IN [db EXCEPT !.rows = [y \in img |-> SumOver(db.rows, {r \in DOMAIN db.rows : move(r) = y})]]

\* mutant: the DELETE has no WHERE clause
deleteSpecification_All(db, id) == [db EXCEPT !.id_table = {}]

deleteSpecification(db, id) == [db EXCEPT !.id_table = {x \in @ : x.id # id}]

repairSupportTables(db) ==
    LET keys == {[id |-> r.id, t |-> tableOf(r)] : r \in DOMAIN db.rows}
    IN [db EXCEPT !.id_table =
          {[id |-> k.id, field |-> k.t.field, type |-> k.t.type,
            refcount |-> BagSize(Select(db.rows, LAMBDA r : r.id = k.id /\ tableOf(r) = k.t))]
           : k \in keys}]

(***************************************************************************)
(* LogicLayer                                                              *)
(***************************************************************************)
setFieldValue(db, id, field) ==
    Bind(Bind(assureFieldTableExists(db, field),
              LAMBDA d : increaseRefcount(d, id, field)),
         LAMBDA d : addValueRecord(d, id, field))

Parent(name) == SubSeq(name, 1, Len(name) - 1)

fillWithNones(db, id, path) ==
    LET max == getMaxListIndex(db, id, path)
        start == IF max = NoIndex THEN 0 ELSE max + 1
        end == path[Len(path)].i
        range == [k \in 1..(end - start) |-> start + k - 1]
    IN FoldSeq(LAMBDA d, i : Bind(d, LAMBDA e :
                    setFieldValue(e, id, Field(Append(Parent(path), I(i)), Null))),
               db, range)

\* the values stored at a determined name, over all its types
valuesAt(db, id, name) ==
    {[type |-> r.type, value |-> r.value] :
        r \in UNION {DOMAIN getFieldValue(db, id, name, type) :
                        type \in getValueTypes(db, id, name)}}

conflictAt(db, id, name, k) ==
    LET values == valuesAt(db, id, SubSeq(name, 1, k))
        next_is_str == isStr(name[k + 1])
    IN values # {} /\ ~(next_is_str /\ EmptyMap \in values)
                   /\ ~(~next_is_str /\ EmptyList \in values)

\* "create necessary hierarchy": sentinels at name[:k], ..., name[:-1]
RECURSIVE createHierarchy(_, _, _, _)
createHierarchy(db, id, name, k) ==
    IF k >= Len(name) \/ db.err # "" THEN db
    ELSE LET tmp == SubSeq(name, 1, k)
             val == IF isStr(name[k + 1]) THEN EmptyMap ELSE EmptyList
             d1 == IF Len(tmp) > 0 /\ isInt(tmp[Len(tmp)])
                   THEN fillWithNones(db, id, tmp) ELSE db
             d2 == Bind(d1, LAMBDA d : setFieldValue(d, id, Field(tmp, val)))
         IN createHierarchy(d2, id, name, k + 1)

\* the loop of _checkForConflicts from the prefix of length k on
RECURSIVE checkForConflictsFrom(_, _, _, _, _)
checkForConflictsFrom(db, id, name, remove_conflicts, k) ==
    IF k >= Len(name) THEN db
    ELSE LET tmp == SubSeq(name, 1, k)
         IN IF valuesAt(db, id, tmp) = {} THEN db
            ELSE IF conflictAt(db, id, name, k)
            THEN IF remove_conflicts
                 THEN LET d1 == FoldSet(LAMBDA d, fld : Bind(d, LAMBDA e :
                                            deleteValues(e, id, fld, fld)),
                                        db, getFieldsList(db, id, tmp, FALSE))
                      IN createHierarchy(d1, id, name, k)
                 ELSE Raise(db, "StructureError")
            ELSE checkForConflictsFrom(db, id, name, remove_conflicts, k + 1)

checkForConflicts(db, id, name, remove_conflicts) ==
    checkForConflictsFrom(db, id, name, remove_conflicts, 0)

\* "fill autocreated list elements (if any) with Nones": path, path[:-1], ...
RECURSIVE fillAutocreated(_, _, _)
fillAutocreated(db, id, name) ==
    IF Len(name) = 0 \/ db.err # "" THEN db
    ELSE fillAutocreated(IF isInt(name[Len(name)]) THEN fillWithNones(db, id, name) ELSE db,
                         id, Parent(name))

storeFields(db, id, path, fields) ==
    FoldSeq(LAMBDA d, f : Bind(d, LAMBDA e :
                setFieldValue(e, id, [f EXCEPT !.name = path \o f.name])),
            db, fields)

\* mutant: the lists are padded before the conflicts are looked for
modifyFields_PadFirst(db, id, path, fields, remove_conflicts) ==
    LET d1 == IF objectHasField(db, id, path)
              THEN FoldSet(LAMBDA d, fld : Bind(d, LAMBDA e : deleteValues(e, id, fld, path)),
                           db, getFieldsList(db, id, path, FALSE))
              ELSE Bind(fillAutocreated(db, id, path),
                        LAMBDA d : checkForConflicts(d, id, path, remove_conflicts))
    IN Bind(d1, LAMBDA d : storeFields(d, id, path, fields))

\* mutant: what is stored at the path is replaced together with its siblings
modifyFields_Siblings(db, id, path, fields, remove_conflicts) ==
    LET d1 == IF objectHasField(db, id, path)
              THEN FoldSet(LAMBDA d, fld : Bind(d, LAMBDA e : deleteValues(e, id, fld, Parent(path))),
                           db, getFieldsList(db, id, Parent(path), FALSE))
              ELSE Bind(checkForConflicts(db, id, path, remove_conflicts),
                        LAMBDA d : fillAutocreated(d, id, path))
    IN Bind(d1, LAMBDA d : storeFields(d, id, path, fields))

modifyFields(db, id, path, fields, remove_conflicts) ==
    LET d1 == IF objectHasField(db, id, path)
              THEN FoldSet(LAMBDA d, fld : Bind(d, LAMBDA e : deleteValues(e, id, fld, path)),
                           db, getFieldsList(db, id, path, FALSE))
              ELSE Bind(checkForConflicts(db, id, path, remove_conflicts),
                        LAMBDA d : fillAutocreated(d, id, path))
    IN Bind(d1, LAMBDA d : storeFields(d, id, path, fields))

renumber(db, id, target, shift) ==
    FoldSet(LAMBDA d, fld : Bind(d, LAMBDA e :
                Bind(IF shift < 0 THEN deleteValues(e, id, fld, target) ELSE e,
                     LAMBDA g : renumberList(g, id, target, fld, shift))),
            db, getFieldsList(db, id, target, FALSE))

\* mutant: a list element is deleted like any field, the list keeps the hole
deleteField_KeepHole(db, id, name) ==
    FoldSet(LAMBDA d, fld : Bind(d, LAMBDA e : deleteValues(e, id, fld, name)),
            db, getFieldsList(db, id, name, FALSE))

deleteField(db, id, name) ==
    IF Len(name) > 0 /\ pointsToListElement(name)
    THEN renumber(db, id, name, -1)
    ELSE FoldSet(LAMBDA d, fld : Bind(d, LAMBDA e : deleteValues(e, id, fld, fld)),
                 db, getFieldsList(db, id, name, FALSE))

\* mutant: only the specification of the object is deleted
deleteObject_SpecOnly(db, id) == deleteSpecification(db, id)

deleteObject(db, id) ==
    Bind(FoldSet(LAMBDA d, f : Bind(d, LAMBDA e : deleteField(e, id, f)),
                 db, getAllFieldsList(db, id)),
         LAMBDA d : deleteSpecification(d, id))

\* "Read parent": the values the parent of the insertion point holds
insertParent(db, id, name) == valuesAt(db, id, Parent(name))

\* the fields of the groups, numbered from starting_num in the last column of path
enumerate(path, field_groups, starting_num) ==
    LET col == Len(path)
        named(j) == [k \in DOMAIN field_groups[j] |->
                        [field_groups[j][k] EXCEPT !.name =
                            [(path \o @) EXCEPT ![col] = I(starting_num + j - 1)]]]
    IN FoldSeq(LAMBDA acc, j : acc \o named(j), <<>>,
               [j \in DOMAIN field_groups |-> j])

\* mutant: a parent that is no list is replaced without asking
processInsertRequest_NoCheck(db, id, path, field_groups, remove_conflicts) ==
    LET parent == insertParent(db, id, path)
        d1 == IF parent = {} \/ EmptyList \notin parent
              THEN modifyFields(db, id, Parent(path), <<Field(<<>>, EmptyList)>>,
                                remove_conflicts)
              ELSE db
        last_elem == path[Len(path)]
        d2 == Bind(d1, LAMBDA d : IF last_elem # None /\ last_elem.i > 0
                                  THEN fillWithNones(d, id, path) ELSE d)
        max == getMaxListIndex(d2, id, path)
        d3 == IF max # NoIndex /\ last_elem # None
              THEN Bind(d2, LAMBDA d : renumber(d, id, path, Len(field_groups)))
              ELSE d2
        starting_num == IF max = NoIndex THEN 0
                        ELSE IF last_elem = None THEN max + 1 ELSE last_elem.i
    IN Bind(d3, LAMBDA d : storeFields(d, id, <<>>, enumerate(path, field_groups, starting_num)))

processInsertRequest(db, id, path, field_groups, remove_conflicts) ==
    LET parent == insertParent(db, id, path)
        d1 == IF parent = {} \/ EmptyList \notin parent
              THEN IF parent = {} \/ remove_conflicts
                   THEN modifyFields(db, id, Parent(path), <<Field(<<>>, EmptyList)>>,
                                     remove_conflicts)
                   ELSE Raise(db, "StructureError")
              ELSE db
        last_elem == path[Len(path)]
        d2 == Bind(d1, LAMBDA d : IF last_elem # None /\ last_elem.i > 0
                                  THEN fillWithNones(d, id, path) ELSE d)
        max == getMaxListIndex(d2, id, path)
        d3 == IF max # NoIndex /\ last_elem # None
              THEN Bind(d2, LAMBDA d : renumber(d, id, path, Len(field_groups)))
              ELSE d2
        starting_num == IF max = NoIndex THEN 0
                        ELSE IF last_elem = None THEN max + 1 ELSE last_elem.i
    IN Bind(d3, LAMBDA d : storeFields(d, id, <<>>, enumerate(path, field_groups, starting_num)))

processDeleteRequest(db, id, fields, whole_object) ==
    IF whole_object THEN deleteObject(db, id)
    ELSE FoldSeq(LAMBDA d, f : Bind(d, LAMBDA e : deleteField(e, id, f)), db, fields)

(***************************************************************************)
(* Field codec of the facade: documents, _flattenHierarchy, _fieldsToTree.  *)
(***************************************************************************)
\* a document is a scalar (a typed value), a dict over string keys or a list
Keys == {"a", "b"}

Absent == [kind |-> "absent"]
Dict(items) == [kind |-> "dict", items |-> items]
List(elems) == [kind |-> "list", elems |-> elems]

isDict(node) == "items" \in DOMAIN node
isList(node) == "elems" \in DOMAIN node

EmptyDict == Dict([k \in Keys |-> Absent])

RECURSIVE Concat(_)
Concat(seqs) == IF seqs = <<>> THEN <<>> ELSE Head(seqs) \o Concat(Tail(seqs))

\* order: the order in which the keys of a dict are visited
RECURSIVE flattenNode(_, _, _)
flattenNode(node, prefix, order) ==
    IF isDict(node)
    THEN LET present == SelectSeq(order, LAMBDA k : node.items[k] # Absent)
         IN <<Field(prefix, EmptyMap)>>
            \o Concat([j \in DOMAIN present |->
                         flattenNode(node.items[present[j]],
                                     Append(prefix, K(present[j])), order)])
    ELSE IF isList(node)
    THEN <<Field(prefix, EmptyList)>>
         \o Concat([j \in DOMAIN node.elems |->
                      flattenNode(node.elems[j], Append(prefix, I(j - 1)), order)])
    ELSE <<Field(prefix, node)>>

flattenHierarchy(data, order) == flattenNode(data, <<>>, order)

\* py_value of a field
py_value(field) ==
    IF field.type = "map" THEN EmptyDict
    ELSE IF field.type = "list" THEN List(<<>>)
    ELSE [type |-> field.type, value |-> field.value]

getItem(obj, ptr) == IF isList(obj) THEN obj.elems[ptr.i + 1] ELSE obj.items[ptr.s]

setItem(obj, ptr, v) ==
    IF isList(obj) THEN [obj EXCEPT !.elems[ptr.i + 1] = v]
    ELSE [obj EXCEPT !.items[ptr.s] = v]

\* "ensure that there is a place in obj where ptr points"
ensurePlace(obj, ptr) ==
    IF isList(obj) /\ Len(obj.elems) < ptr.i + 1
    THEN [obj EXCEPT !.elems = [j \in 1..(ptr.i + 1) |->
                                  IF j <= Len(obj.elems) THEN obj.elems[j] ELSE Null]]
    ELSE IF isDict(obj) /\ obj.items[ptr.s] = Absent
    THEN [obj EXCEPT !.items[ptr.s] = Null]
    ELSE obj

\* mutant: the value of a field is stored whatever the place holds
storeLeaf_Always(cur, field) == py_value(field)

\* mutant: an empty container is never stored
storeLeaf_NoSentinel(cur, field) ==
    IF field.type \notin {"map", "list"} THEN py_value(field) ELSE cur

\* what the place holds after the value of a field was saved to it
storeLeaf(cur, field) ==
    IF field.type \notin {"map", "list"} \/ cur = Null THEN py_value(field) ELSE cur

RECURSIVE saveTo(_, _, _, _)
saveTo(obj, ptr, path, field) ==
    LET o == ensurePlace(obj, ptr)
        cur == getItem(o, ptr)
    IN IF path = <<>> THEN setItem(o, ptr, storeLeaf(cur, field))
       ELSE LET next == IF cur = Null
                        THEN (IF isStr(path[1]) THEN EmptyDict ELSE List(<<>>))
                        ELSE cur
            IN setItem(o, ptr, saveTo(next, path[1], Tail(path), field))

fieldsToTree(fields) ==
    IF Len(fields) = 0 THEN List(<<>>)
    ELSE LET res == FoldSeq(LAMBDA r, field : saveTo(r, I(0), field.name, field),
                            List(<<>>), fields)
         IN res.elems[1]

(***************************************************************************)
(* Read.                                                                   *)
(***************************************************************************)
\* the name lies at or under the mask; a wildcard stands for any list index
matches(name, mask) ==
    /\ Len(mask) <= Len(name)
    /\ \A k \in DOMAIN mask :
          \/ name[k] = mask[k]
          \/ (~isStr(name[k]) /\ ~isStr(mask[k]) /\ None \in {name[k], mask[k]})

\* name without its first n elements
dropPrefix(name, n) == [k \in 1..(Len(name) - n) |-> name[k + n]]

\* path = <<>>: no path; masks = {}: no masks.  The result is the set of the
\* fields read, their names relative to path.  When no mask is left for the
\* path, getRawFieldsInfo sends the condition "AND ()" and the engine rejects it.
processReadRequest(db, id, path, masks) ==
    LET fields == IF masks = {} THEN {path}
                  ELSE {mask \in masks : path = <<>> \/ matches(mask, path)}
        fields_list == UNION {getFieldsInfo(db, id, mask) : mask \in fields}
        result_list == UNION {DOMAIN getFieldValue(db, id, f.name, f.type) : f \in fields_list}
    IN IF masks # {} /\ fields = {} THEN [err |-> "EngineError", result |-> {}]
       ELSE IF result_list = {} THEN [err |-> "LogicError", result |-> {}]
       ELSE [err |-> "",
             result |-> {[name |-> dropPrefix(r.name, Len(path)), type |-> r.type,
                          value |-> r.value] : r \in result_list}]

(***************************************************************************)
(* Search: condition trees, their normalisation and compilation.           *)
(***************************************************************************)
\* a leaf compares the values stored at name with a literal (EQ); known is
\* cleared when the table of the leaf does not exist (operand1 = None)
Leaf(name, value, invert) ==
    [leaf |-> TRUE, name |-> name, value |-> value, invert |-> invert, known |-> TRUE]

Node(operand1, operator, operand2, invert) ==
    [leaf |-> FALSE, operand1 |-> operand1, operator |-> operator,
     operand2 |-> operand2, invert |-> invert]

NoCondition == [null |-> TRUE]

\* table a leaf reads: the field with the type of the literal
leafTable(condition) == name_str(condition.name, condition.value.type)

\* mutant: the operands of the node are not visited
propagateInversion_TopOnly(condition) ==
    IF condition.leaf \/ ~condition.invert THEN condition
    ELSE [condition EXCEPT !.invert = FALSE,
                           !.operand1 = [@ EXCEPT !.invert = ~@],
                           !.operand2 = [@ EXCEPT !.invert = ~@],
                           !.operator = IF @ = "AND" THEN "OR" ELSE "AND"]

RECURSIVE propagateInversion(_)
propagateInversion(condition) ==
    IF condition.leaf THEN condition
    ELSE LET flip(c) == [c EXCEPT !.invert = ~@]
             n == IF condition.invert
                  THEN [condition EXCEPT !.invert = FALSE,
                                         !.operand1 = flip(@),
                                         !.operand2 = flip(@),
                                         !.operator = IF @ = "AND" THEN "OR" ELSE "AND"]
                  ELSE condition
         IN [n EXCEPT !.operand1 = propagateInversion(@),
                      !.operand2 = propagateInversion(@)]

\* a compiled query is its result set with the per-field tables it names, or
\* null ("return None, None, None")
NullQuery == [null |-> TRUE, ids |-> {}, tables |-> {}]
Query(S, T) == [null |-> FALSE, ids |-> S, tables |-> T]

allIds(db) == {x.id : x \in db.id_table}

\* mutant: a null operand makes the whole node null, whatever the operator
joinQueries_NullWins(q1, operator, q2) ==
    IF q1.null \/ q2.null THEN NullQuery
    ELSE IF operator = "AND" THEN Query(q1.ids \cap q2.ids, q1.tables \cup q2.tables)
    ELSE Query(q1.ids \cup q2.ids, q1.tables \cup q2.tables)

\* INTERSECT / UNION of the compiled operands, with the null cases
joinQueries(q1, operator, q2) ==
    IF q1.null /\ q2.null THEN NullQuery
    ELSE IF q1.null THEN (IF operator = "AND" THEN NullQuery ELSE q2)
    ELSE IF q2.null THEN (IF operator = "AND" THEN NullQuery ELSE q1)
    ELSE IF operator = "AND" THEN Query(q1.ids \cap q2.ids, q1.tables \cup q2.tables)
    ELSE Query(q1.ids \cup q2.ids, q1.tables \cup q2.tables)

RECURSIVE buildSqlQuery(_, _)
buildSqlQuery(db, condition) ==
    IF "null" \in DOMAIN condition THEN Query(allIds(db), {})
    ELSE IF ~condition.leaf
    THEN joinQueries(buildSqlQuery(db, condition.operand1), condition.operator,
                     buildSqlQuery(db, condition.operand2))
    ELSE IF ~condition.known
    THEN (IF condition.invert THEN Query(allIds(db), {}) ELSE NullQuery)
    ELSE LET tbl == leafTable(condition)
             inTable == {r \in DOMAIN db.rows : tableOf(r) = tbl}
             base == {r.id : r \in {x \in inTable :
                          /\ (x.value = condition.value.value) # condition.invert
                          /\ columns_condition(condition.name, x.name)}}
         IN IF condition.invert
            THEN Query(base \cup (allIds(db) \ {r.id : r \in inTable}), {tbl})
            ELSE Query(base, {tbl})

\* mutant: leaves keep their table whether it exists or not
updateCondition_Keep(condition, existing_tables) == condition

RECURSIVE updateCondition(_, _)
updateCondition(condition, existing_tables) ==
    IF ~condition.leaf
    THEN [condition EXCEPT !.operand1 = updateCondition(@, existing_tables),
                           !.operand2 = updateCondition(@, existing_tables)]
    ELSE IF leafTable(condition) \notin existing_tables
    THEN [condition EXCEPT !.known = FALSE]
    ELSE condition

\* the query the handler sends to the engine
compileSearch(db, condition) ==
    buildSqlQuery(db, IF "null" \in DOMAIN condition THEN condition
                      ELSE updateCondition(condition, db.tables))

\* the engine rejects a query that names a table which does not exist
executeError(db, request) ==
    IF ~request.null /\ ~(request.tables \subseteq db.tables) THEN "EngineError" ELSE ""

\* the ids the search returns
processSearchRequest(db, condition) ==
    LET request == compileSearch(db, condition)
    IN IF request.null \/ executeError(db, request) # "" THEN {} ELSE request.ids

\* the search as the facade sends it
search(db, condition) ==
    processSearchRequest(db, IF "null" \in DOMAIN condition THEN condition
                             ELSE propagateInversion(condition))

(***************************************************************************)
(* Requests the model issues.                                              *)
(***************************************************************************)
Ids == {1, 2}

a == K("a")
b == K("b")

\* documents as the facade flattens them, names relative to the path
StrDoc == <<Field(<<>>, StrVal("x"))>>
IntDoc == <<Field(<<>>, IntVal("1"))>>
MapDoc == <<Field(<<>>, EmptyMap)>>
NestedDoc == <<Field(<<>>, EmptyMap), Field(<<b>>, EmptyMap)>>

DocPayloads == { StrDoc, IntDoc, MapDoc, NestedDoc }

\* field lists as the internal tests pass them: repeated and nested names
RawPayloads ==
    { <<Field(<<a>>, StrVal("x")), Field(<<a>>, StrVal("y"))>>,
      <<Field(<<a>>, StrVal("x")), Field(<<a, b>>, IntVal("1"))>>,
      <<Field(<<a, I(0)>>, StrVal("x")), Field(<<a, I(0), b>>, IntVal("1"))>> }

ModifyPaths ==
    { <<>>, <<a>>, <<a, b>>, <<a, I(0)>>, <<a, I(1)>>, <<a, I(1), I(1)>> }

\* every path with a scalar and with a container; the other documents and
\* remove_conflicts = TRUE on the paths where they make a difference
DocModifyRequests ==
    { [id |-> 1, path |-> p, fields |-> f, remove_conflicts |-> FALSE] :
        p \in ModifyPaths, f \in {StrDoc, MapDoc} }
    \cup { [id |-> 1, path |-> p, fields |-> f, remove_conflicts |-> FALSE] :
        p \in {<<a>>, <<a, I(1)>>}, f \in {IntDoc, NestedDoc} }
    \cup { [id |-> 1, path |-> p, fields |-> MapDoc, remove_conflicts |-> TRUE] :
        p \in {<<a, b>>, <<a, I(0)>>} }
    \cup { [id |-> 1, path |-> <<a, I(0), b>>, fields |-> StrDoc, remove_conflicts |-> FALSE] }
    \cup { [id |-> 2, path |-> <<a>>, fields |-> StrDoc, remove_conflicts |-> FALSE] }

RawModifyRequests ==
    { [id |-> 1, path |-> <<>>, fields |-> f, remove_conflicts |-> FALSE] :
        f \in RawPayloads }

\* two elements added behind the elements of list a, in one request
ListAddRequests ==
    { [id |-> 1, path |-> <<a>>, remove_conflicts |-> FALSE,
       fields |-> <<Field(<<I(1)>>, StrVal("x")), Field(<<I(2)>>, StrVal("y"))>>],
      [id |-> 1, path |-> <<>>, remove_conflicts |-> FALSE,
       fields |-> <<Field(<<a, I(1)>>, StrVal("x")), Field(<<a, I(2)>>, StrVal("y"))>>] }

ModifyRequests == DocModifyRequests \cup RawModifyRequests \cup ListAddRequests

InsertPaths == { <<a, None>>, <<a, I(0)>>, <<a, I(1)>> }

InsertGroups ==
    { << <<Field(<<>>, StrVal("x"))>> >>,
      << <<Field(<<>>, IntVal("1"))>>, <<Field(<<>>, StrVal("y"))>> >> }

InsertRequests ==
    { [id |-> 1, path |-> p, field_groups |-> g, remove_conflicts |-> FALSE] :
        p \in InsertPaths, g \in InsertGroups }
    \cup { [id |-> 1, path |-> <<a, None>>, field_groups |-> g, remove_conflicts |-> TRUE] :
        g \in InsertGroups }

DeletePaths == { <<a>>, <<a, b>>, <<a, None>>, <<a, I(0)>>, <<a, I(1)>> }

ReadPaths == { <<>>, <<a>>, <<a, b>>, <<a, I(0)>>, <<a, I(1)>>, <<a, None>> }

ReadMasks == { {}, {<<b>>}, {<<a, None>>}, {<<a, b>>}, {<<a, I(0)>>, <<a, b>>} }

ReadRequests == { [id |-> id, path |-> p, masks |-> m] : id \in Ids, p \in ReadPaths, m \in ReadMasks }

SearchPaths == { <<a>>, <<a, b>>, <<a, I(0)>>, <<a, I(1)>> }

SearchLeaves ==
    { Leaf(p, StrVal("x"), inv) : p \in SearchPaths, inv \in BOOLEAN }
    \cup { Leaf(<<a, I(0)>>, IntVal("1"), inv) : inv \in BOOLEAN }

SearchConditions ==
    SearchLeaves
    \cup { Node(Leaf(<<a>>, StrVal("x"), FALSE), o, Leaf(<<a, I(0)>>, StrVal("x"), i2), i) :
             o \in {"AND", "OR"}, i2 \in BOOLEAN, i \in BOOLEAN }
    \cup { Node(Leaf(<<a, b>>, StrVal("x"), TRUE), o, Leaf(<<a, I(0)>>, IntVal("1"), FALSE), i) :
             o \in {"AND", "OR"}, i \in BOOLEAN }
    \cup { NoCondition }

CreatePayloads == RawPayloads \cup { <<Field(<<>>, EmptyMap)>> }

(***************************************************************************)
(* Two Connections on one database.  Each has an engine object of its own; *)
(* the engine lets one engine transaction be open at a time, and a         *)
(* statement executed outside of one is a transaction of its own.  Every   *)
(* request stores one more value of the same field and type of the same    *)
(* object, so its handler comes to _setFieldValue: the types are read,     *)
(* the specification row is inserted or updated, the value row is added.   *)
(***************************************************************************)
Conns == {1, 2}

connect ==
    [lock |-> 0, saved |-> [refcounts |-> <<>>, values |-> 0],
     refcounts |-> <<>>, values |-> 0, unscoped |-> FALSE,
     conn |-> [c \in Conns |-> [transaction |-> FALSE, sync |-> FALSE, requests |-> 0,
                                todo |-> 0, at |-> "idle", new_type |-> FALSE]]]

OnlyPair ==
    UNCHANGED <<id_table, tables, rows, last, document, fields_flat, tree, search_condition,
                propagated, before, transaction, sync, requests, engine, call>>

\* engine.begin() of connection c: waits until no engine transaction is open
engineBegin(p, c) ==
    [p EXCEPT !.lock = c, !.saved = [refcounts |-> p.refcounts, values |-> p.values]]

\* the handlers of todo requests start inside the engine transaction of c
processRequestsOf(p, c, todo) ==
    IF todo = 0 THEN [p EXCEPT !.conn[c].requests = 0]
    ELSE [engineBegin(p, c) EXCEPT !.conn[c].requests = 0, !.conn[c].todo = todo,
                                   !.conn[c].at = "types"]

\* c.beginSync() or c.beginAsync()
BeginOf(c, s) ==
    /\ pair.conn[c].at = "idle" /\ ~pair.conn[c].transaction
    /\ s => pair.lock = 0
    /\ pair' = [(IF s THEN engineBegin(pair, c) ELSE pair)
                   EXCEPT !.conn[c].transaction = TRUE, !.conn[c].sync = s]
    /\ OnlyPair

\* c.commit()
CommitOf(c) ==
    /\ pair.conn[c].at = "idle" /\ pair.conn[c].transaction
    /\ IF pair.conn[c].sync
       THEN pair' = [pair EXCEPT !.lock = 0, !.conn[c].transaction = FALSE,
                                 !.conn[c].sync = FALSE, !.conn[c].requests = 0]
       ELSE /\ pair.lock = 0
            /\ pair' = [processRequestsOf(pair, c, pair.conn[c].requests)
                           EXCEPT !.conn[c].transaction = FALSE]
    /\ OnlyPair

\* c.rollback(): _sync stays as it was
RollbackOf(c) ==
    /\ pair.conn[c].at = "idle" /\ pair.conn[c].transaction
    /\ IF pair.conn[c].sync
       THEN pair' = [pair EXCEPT !.lock = 0, !.refcounts = pair.saved.refcounts,
                                 !.values = pair.saved.values,
                                 !.conn[c].transaction = FALSE]
       ELSE pair' = [pair EXCEPT !.conn[c].transaction = FALSE, !.conn[c].requests = 0]
    /\ OnlyPair

\* a transacted method of c: run at once when _sync is set, queued in an
\* asynchronous transaction, a transaction of its own otherwise
RequestOf(c) ==
    /\ pair.conn[c].at = "idle"
    /\ pair.values + pair.conn[1].requests + pair.conn[1].todo
                   + pair.conn[2].requests + pair.conn[2].todo < MaxRows
    /\ IF pair.conn[c].sync
       THEN pair' = [pair EXCEPT !.conn[c].todo = 1, !.conn[c].at = "types",
                                 !.unscoped = @ \/ pair.lock # c]
       ELSE IF pair.conn[c].transaction
       THEN /\ pair.conn[c].requests < MaxPending
            /\ pair' = [pair EXCEPT !.conn[c].requests = @ + 1]
       ELSE /\ pair.lock = 0
            /\ pair' = processRequestsOf(pair, c, 1)
    /\ OnlyPair

\* a statement of c is executed when no other connection's transaction is open:
\* new_type = field.type_str not in self.getValueTypes(id, field)
SelectTypes(c) ==
    /\ pair.conn[c].at = "types" /\ pair.lock \in {0, c}
    /\ pair' = [pair EXCEPT !.conn[c].new_type = (pair.refcounts = <<>>),
                            !.conn[c].at = "refcount"]
    /\ OnlyPair

\* INSERT ... VALUES (?, ?, ?, 1) for a new type, UPDATE refcount + 1 otherwise
InsertOrUpdate(c) ==
    /\ pair.conn[c].at = "refcount" /\ pair.lock \in {0, c}
    /\ pair' = [pair EXCEPT !.refcounts = IF pair.conn[c].new_type THEN Append(@, 1)
                                          ELSE [k \in DOMAIN @ |-> @[k] + 1],
                            !.conn[c].at = "value"]
    /\ OnlyPair

\* addValueRecord; after the last handler of a batch, engine.commit()
AddValueRecord(c) ==
    /\ pair.conn[c].at = "value" /\ pair.lock \in {0, c}
    /\ pair' = [pair EXCEPT !.values = @ + 1,
                            !.conn[c].todo = @ - 1,
                            !.conn[c].at = IF pair.conn[c].todo > 1 THEN "types" ELSE "idle",
                            !.lock = IF pair.conn[c].todo = 1 /\ pair.lock = c
                                        /\ ~pair.conn[c].sync
                                     THEN 0 ELSE @]
    /\ OnlyPair

TwoNext ==
    \E c \in Conns :
       \/ \E s \in BOOLEAN : BeginOf(c, s)
       \/ CommitOf(c)
       \/ RollbackOf(c)
       \/ RequestOf(c)
       \/ SelectTypes(c)
       \/ InsertOrUpdate(c)
       \/ AddValueRecord(c)

(***************************************************************************)
(* Transactions: one request each; an exception rolls everything back.     *)
(***************************************************************************)
Current == DB(id_table, tables, rows, "")

WithinBounds(db) ==
    /\ BagSize(db.rows) <= MaxRows
    /\ \A r \in DOMAIN db.rows : \A k \in DOMAIN r.name : r.name[k].i <= MaxIndex

\* commit, or rollback when the handler raised
Finish(db, op) ==
    /\ WithinBounds(db)
    /\ IF db.err = ""
       THEN /\ id_table' = db.id_table
            /\ tables' = db.tables
            /\ rows' = db.rows
       ELSE UNCHANGED <<id_table, tables, rows>>
    /\ last' = [op |-> op, err |-> db.err, dv_ok |-> db.dv_ok]
    /\ UNCHANGED <<document, fields_flat, tree, search_condition, propagated, before,
                 transaction, sync, requests, engine, call, pair>>

Init ==
    /\ id_table = {}
    /\ tables = {}
    /\ rows = EmptyBag
    /\ last = [op |-> "init", err |-> "", dv_ok |-> TRUE]
    /\ document = Null
    /\ fields_flat = <<>>
    /\ tree = Absent
    /\ search_condition = NoCondition
    /\ propagated = <<>>
    /\ before = [damaged |-> FALSE, id_table |-> {}, damage |-> {}]
    /\ transaction = FALSE
    /\ sync = FALSE
    /\ requests = <<>>
    /\ engine = [open |-> FALSE, saved |-> DB({}, {}, EmptyBag, "")]
    /\ call = [name |-> "connect", arg |-> NoResult, err |-> "", result |-> NoResult,
               events |-> <<>>, was_open |-> FALSE]
    /\ pair = connect

\* an id the engine has not handed out: nothing in the database bears it
getNewId(db) ==
    CHOOSE id \in Ids : (\A x \in db.id_table : x.id # id) /\ (\A r \in DOMAIN db.rows : r.id # id)

processCreateRequest(db, fields) == modifyFields(db, getNewId(db), <<>>, fields, TRUE)

Create(fields) ==
    /\ \E id \in Ids : (\A x \in id_table : x.id # id) /\ (\A r \in DOMAIN rows : r.id # id)
    /\ Finish(processCreateRequest(Current, fields), "create")

\* "replace": the request found something stored at its path
Modify(id, path, fields, remove_conflicts) ==
    Finish(modifyFields(Current, id, path, fields, remove_conflicts),
           IF \E r \in DOMAIN rows : r.id = id /\ r.name = path
           THEN "replace" ELSE "modify")

\* "append": the insertion point is the end of the list (wildcard)
Insert(id, path, field_groups, remove_conflicts) ==
    Finish(processInsertRequest(Current, id, path, field_groups, remove_conflicts),
           IF path[Len(path)] = None THEN "append" ELSE "insert")

\* "shift": the request deletes a list element that has elements behind it
Delete(id, fields) ==
    Finish(processDeleteRequest(Current, id, fields, FALSE),
           IF \E r \in DOMAIN rows :
                 /\ r.id = id /\ Len(fields[1]) > 0 /\ Len(r.name) >= Len(fields[1])
                 /\ pointsToListElement(fields[1])
                 /\ renumber_condition(fields[1], r.name)
                 /\ r.name[Len(fields[1])].i > fields[1][Len(fields[1])].i
           THEN "shift" ELSE "delete")

\* "drop": the request deletes an object that has rows
DeleteWhole(id) ==
    Finish(processDeleteRequest(Current, id, <<>>, TRUE),
           IF \E r \in DOMAIN rows : r.id = id THEN "drop" ELSE "delete")

Repair ==
    Finish(repairSupportTables(Current), "repair")

Next ==
    \/ \E r \in DocModifyRequests : Modify(r.id, r.path, r.fields, r.remove_conflicts)
    \/ \E r \in RawModifyRequests : Modify(r.id, r.path, r.fields, r.remove_conflicts)
    \/ \E r \in ListAddRequests : Modify(r.id, r.path, r.fields, r.remove_conflicts)
    \/ \E fields \in CreatePayloads : Create(fields)
    \/ \E r \in InsertRequests : Insert(r.id, r.path, r.field_groups, r.remove_conflicts)
    \/ \E path \in DeletePaths : Delete(1, <<path>>)
    \/ \E id \in Ids : DeleteWhole(id)
    \/ Repair

Spec == Init /\ [][Next]_vars

(***************************************************************************)
(* Repair after damage: the specification table is dropped, loses a row,   *)
(* gets a wrong refcount or a stray row; repair() is called next.          *)
(***************************************************************************)
Damage ==
    /\ ~before.damaged
    /\ \E D \in {{}, id_table \cup {[id |-> 2, field |-> <<b>>, type |-> "str", refcount |-> 1]}}
               \cup {id_table \ {x} : x \in id_table}
               \cup {(id_table \ {x}) \cup {[x EXCEPT !.refcount = @ + 1]} : x \in id_table} :
          /\ id_table' = D
          /\ before' = [damaged |-> TRUE, id_table |-> id_table, damage |-> D]
    /\ last' = [op |-> "damage", err |-> "", dv_ok |-> TRUE]
    /\ UNCHANGED <<tables, rows, document, fields_flat, tree, search_condition, propagated,
                   transaction, sync, requests, engine, call, pair>>

Recover ==
    /\ last.op = "damage"
    /\ Finish(repairSupportTables(Current), "recover")

RepairNext ==
    \/ /\ ~before.damaged
       /\ \/ \E r \in DocModifyRequests : Modify(r.id, r.path, r.fields, r.remove_conflicts)
          \/ \E r \in ListAddRequests : Modify(r.id, r.path, r.fields, r.remove_conflicts)
          \/ \E path \in DeletePaths : Delete(1, <<path>>)
    \/ Damage
    \/ Recover

RepairSpec == Init /\ [][RepairNext]_vars

(***************************************************************************)
(* The field codec on its own: a document is flattened, the list is built  *)
(* into a tree again.                                                      *)
(***************************************************************************)
Scalars == { Null, StrVal("x"), IntVal("1") }

Dicts(S) == { Dict(f) : f \in [Keys -> S \cup {Absent}] }

Lists(S) == { List(e) : e \in UNION { [1..n -> S] : n \in 0..MaxLen } }

FlatDocuments == Scalars \cup Dicts(Scalars) \cup Lists(Scalars)

Documents == FlatDocuments \cup Dicts(FlatDocuments) \cup Lists(FlatDocuments)

KeyOrders == { <<"a", "b">>, <<"b", "a">> }

CodecInit ==
    /\ id_table = {}
    /\ tables = {}
    /\ rows = EmptyBag
    /\ last = [op |-> "init", err |-> "", dv_ok |-> TRUE]
    /\ document \in Documents
    /\ fields_flat = <<>>
    /\ tree = Absent
    /\ search_condition = NoCondition
    /\ propagated = <<>>
    /\ before = [damaged |-> FALSE, id_table |-> {}, damage |-> {}]
    /\ transaction = FALSE
    /\ sync = FALSE
    /\ requests = <<>>
    /\ engine = [open |-> FALSE, saved |-> DB({}, {}, EmptyBag, "")]
    /\ call = [name |-> "connect", arg |-> NoResult, err |-> "", result |-> NoResult,
               events |-> <<>>, was_open |-> FALSE]
    /\ pair = connect

Flatten ==
    /\ fields_flat = <<>>
    /\ \E order \in KeyOrders : fields_flat' = flattenHierarchy(document, order)
    /\ UNCHANGED <<id_table, tables, rows, last, document, tree, search_condition, propagated, before,
                 transaction, sync, requests, engine, call, pair>>

Build ==
    /\ fields_flat # <<>>
    /\ tree = Absent
    /\ tree' = fieldsToTree(fields_flat)
    /\ UNCHANGED <<id_table, tables, rows, last, document, fields_flat, search_condition, propagated, before,
                 transaction, sync, requests, engine, call, pair>>

CodecNext == Flatten \/ Build

CodecSpec == CodecInit /\ [][CodecNext]_vars

(***************************************************************************)
(* The fields of a document reach _fieldsToTree in any order: the order of *)
(* the rows of a read is the engine's.                                     *)
(***************************************************************************)
\* the orders of n fields
Orderings(n) == {p \in [1..n -> 1..n] : \A i, j \in 1..n : p[i] = p[j] => i = j}

OrderInit ==
    /\ CodecInit
    /\ Len(flattenHierarchy(document, <<"a", "b">>)) <= MaxFields

FieldsInAnyOrder ==
    /\ fields_flat = <<>>
    /\ LET fields == flattenHierarchy(document, <<"a", "b">>)
       IN \E p \in Orderings(Len(fields)) :
             fields_flat' = [k \in DOMAIN fields |-> fields[p[k]]]
    /\ UNCHANGED <<id_table, tables, rows, last, document, tree, search_condition, propagated,
                   before, transaction, sync, requests, engine, call, pair>>

OrderSpec == OrderInit /\ [][FieldsInAnyOrder \/ Build]_vars

(***************************************************************************)
(* The condition normaliser on its own: a condition tree is given, the     *)
(* inversion is propagated, and propagated once more.                      *)
(***************************************************************************)
\* the condition trees of at most the given depth with one operand a leaf
RECURSIVE ConditionTrees(_)
ConditionTrees(depth) ==
    LET leaves == {Leaf(p, StrVal("x"), i) : p \in {<<a>>, <<b>>}, i \in BOOLEAN}
        sub == ConditionTrees(depth - 1)
    IN IF depth = 0 THEN leaves
       ELSE sub \cup {Node(l, o, r, i) : l \in sub, r \in leaves,
                                         o \in {"AND", "OR"}, i \in BOOLEAN}
                \cup {Node(l, o, r, i) : l \in leaves, r \in sub,
                                         o \in {"AND", "OR"}, i \in BOOLEAN}

NormInit ==
    /\ id_table = {}
    /\ tables = {}
    /\ rows = EmptyBag
    /\ last = [op |-> "init", err |-> "", dv_ok |-> TRUE]
    /\ document = Null
    /\ fields_flat = <<>>
    /\ tree = Absent
    /\ search_condition \in ConditionTrees(MaxDepth)
    /\ propagated = <<>>
    /\ before = [damaged |-> FALSE, id_table |-> {}, damage |-> {}]
    /\ transaction = FALSE
    /\ sync = FALSE
    /\ requests = <<>>
    /\ engine = [open |-> FALSE, saved |-> DB({}, {}, EmptyBag, "")]
    /\ call = [name |-> "connect", arg |-> NoResult, err |-> "", result |-> NoResult,
               events |-> <<>>, was_open |-> FALSE]
    /\ pair = connect

Propagate ==
    /\ Len(propagated) < 2
    /\ propagated' = Append(propagated,
                            propagateInversion(IF propagated = <<>> THEN search_condition
                                               ELSE propagated[Len(propagated)]))
    /\ UNCHANGED <<id_table, tables, rows, last, document, fields_flat, tree, search_condition, before,
                 transaction, sync, requests, engine, call, pair>>

NormSpec == NormInit /\ [][Propagate]_vars

(***************************************************************************)
(* The facade: Connection with synchronous and asynchronous transactions.  *)
(* A connection state st carries the fields of the Connection, the engine, *)
(* the database, the engine calls and handler runs of the current call     *)
(* (events), the handler results and the exception raised, if any.         *)
(***************************************************************************)
\* the rows of a result in the order the engine returns them
RECURSIVE asList(_)
asList(S) ==
    IF S = {} THEN <<>>
    ELSE LET x == CHOOSE y \in S : TRUE IN <<x>> \o asList(S \ {x})

\* mutant: the loop over the ids ends after the first object
processDumpRequest_FirstOnly(db) ==
    CHOOSE out \in
      { IF ids = <<>> THEN [err |-> "", result |-> <<>>]
        ELSE CHOOSE o \in { [err |-> r.err, result |-> <<ids[1], r.result>>] :
                            r \in {processReadRequest(db, ids[1], <<>>, {})} } : TRUE :
        ids \in {asList(processSearchRequest(db, NoCondition))} } : TRUE

\* (a value is bound with \in where it is used more than once, so that it is
\* computed once)
processDumpRequest(db) ==
    CHOOSE out \in
      { [err |-> IF \E k \in DOMAIN ids :
                      processReadRequest(db, ids[k], <<>>, {}).err # ""
                 THEN "LogicError" ELSE "",
         result |-> Concat([k \in DOMAIN ids |->
                              <<ids[k], processReadRequest(db, ids[k], <<>>, {}).result>>])] :
        ids \in {asList(processSearchRequest(db, NoCondition))} } : TRUE

\* the handler of the request's type, run on the prepared request
handle(db, request) ==
    LET wrote(d0) == CHOOSE o \in { [db |-> d, err |-> d.err, result |-> NoResult] :
                                    d \in {d0} } : TRUE
        got(r0) == CHOOSE o \in { [db |-> db, err |-> r.err, result |-> r.result] :
                                  r \in {r0} } : TRUE
    IN CASE request.type = "modify" ->
              wrote(modifyFields(db, request.id, request.path, request.fields,
                                 request.remove_conflicts))
         [] request.type = "insert" ->
              wrote(processInsertRequest(db, request.id, request.path,
                                         request.field_groups, request.remove_conflicts))
         [] request.type = "delete" ->
              wrote(processDeleteRequest(db, request.id, request.fields,
                                         request.fields = <<>>))
         [] request.type = "repair" -> wrote(repairSupportTables(db))
         [] request.type = "read" ->
              got(processReadRequest(db, request.id, request.path, request.masks))
         [] request.type = "search" ->
              LET c == IF "null" \in DOMAIN request.condition THEN request.condition
                       ELSE propagateInversion(request.condition)
              IN [db |-> db, err |-> executeError(db, compileSearch(db, c)),
                  result |-> processSearchRequest(db, c)]
         [] request.type = "objectExists" ->
              [db |-> db, err |-> "", result |-> objectExists(db, request.id)]
         [] request.type = "dump" -> got(processDumpRequest(db))

transformResults(reqs, results) ==
    [k \in 1..(IF Len(reqs) < Len(results) THEN Len(reqs) ELSE Len(results)) |->
        IF reqs[k].type \in {"modify", "insert", "delete", "repair"} THEN NoResult
        ELSE IF reqs[k].type = "read" THEN fieldsToTree(asList(results[k]))
        ELSE IF reqs[k].type = "dump"
        THEN [i \in DOMAIN results[k] |->
                IF i % 2 = 0 THEN fieldsToTree(asList(results[k][i])) ELSE results[k][i]]
        ELSE results[k]]

\* begin, commit or rollback of the engine; rollback restores the database
engineDo(st0, what) ==
    CHOOSE out \in
      { IF what = "begin"
        THEN [st EXCEPT !.events = Append(@, what),
                        !.engine = [open |-> TRUE, saved |-> st.db]]
        ELSE [st EXCEPT !.events = Append(@, what),
                        !.engine = [open |-> FALSE, saved |-> DB({}, {}, EmptyBag, "")],
                        !.db = IF what = "rollback" /\ st.engine.open
                               THEN st.engine.saved ELSE @] :
        st \in {st0} } : TRUE

\* mutant: a transaction in progress is replaced
begin_Again(st, s) ==
    [(IF s THEN engineDo(st, "begin") ELSE st) EXCEPT !.transaction = TRUE, !.sync = s]

begin(st, s) ==
    IF st.transaction THEN [st EXCEPT !.err = "FacadeError"]
    ELSE [(IF s THEN engineDo(st, "begin") ELSE st) EXCEPT !.transaction = TRUE, !.sync = s]

\* mutant: the requests of the asynchronous transaction stay in the list
rollback_KeepRequests(st) ==
    IF ~st.transaction THEN [st EXCEPT !.err = "FacadeError"]
    ELSE IF st.sync THEN engineDo([st EXCEPT !.transaction = FALSE], "rollback")
    ELSE [st EXCEPT !.transaction = FALSE]

rollback(st) ==
    IF ~st.transaction THEN [st EXCEPT !.err = "FacadeError"]
    ELSE IF st.sync THEN engineDo([st EXCEPT !.transaction = FALSE], "rollback")
    ELSE [st EXCEPT !.transaction = FALSE, !.requests = <<>>]

(***************************************************************************)
(* A method that runs handlers is modelled in two halves around the one    *)
(* place where the handlers run: the first half leaves in st.todo the      *)
(* requests it hands to the handlers and in st.after the method that       *)
(* resumes when they are done.                                             *)
(***************************************************************************)
\* _processRequests up to the loop over the handlers
processRequests(st, reqs) == [engineDo(st, "begin") EXCEPT !.todo = reqs]

\* one handler of the loop; the loop ends at the first exception
runHandler(s0, request) ==
    CHOOSE out \in
      { IF s.err # "" THEN s
        ELSE CHOOSE o \in { [s EXCEPT !.db = IF h.err = "" THEN h.db ELSE @,
                                      !.err = h.err,
                                      !.results = Append(@, h.result),
                                      !.events = Append(@, "handler")] :
                            h \in {handle(s.db, request)} } : TRUE :
        s \in {s0} } : TRUE

\* the loop over the prepared requests
runHandlers(st) == FoldSeq(runHandler, st, st.todo)

\* _processRequests after the loop
processRequestsEnd(st) == engineDo(st, IF st.err # "" THEN "rollback" ELSE "commit")

\* commit up to the handlers
commit(st) ==
    IF ~st.transaction THEN [st EXCEPT !.err = "FacadeError"]
    ELSE IF st.sync
    THEN [engineDo([st EXCEPT !.transaction = FALSE], "commit") EXCEPT !.sync = FALSE]
    ELSE [processRequests([st EXCEPT !.transaction = FALSE], st.requests)
             EXCEPT !.after = "commit"]

\* commit after the handlers
commitEnd(st) ==
    [processRequestsEnd(st) EXCEPT
        !.requests = <<>>,
        !.result = IF st.err = "" THEN transformResults(st.requests, st.results)
                   ELSE NoResult]

\* mutant: in an asynchronous transaction the request goes to the head of the
\* list
transacted_Prepend(st, request) ==
    IF st.sync
    THEN IF request.type = "malformed" THEN [st EXCEPT !.err = "FormatError"]
         ELSE [st EXCEPT !.requests = Append(@, request),
                         !.todo = <<Append(st.requests, request)[1]>>,
                         !.after = "transacted"]
    ELSE LET begun == IF st.transaction THEN st ELSE begin(st, FALSE)
             queued == [begun EXCEPT !.requests = <<request>> \o @]
         IN IF request.type = "malformed"
            THEN [rollback(begun) EXCEPT !.err = "FormatError"]
            ELSE IF st.transaction THEN queued
            ELSE [commit(queued) EXCEPT !.after = "transacted, commit"]

\* a transacted method of the Connection up to the handlers; a request of type
\* "malformed" stands for arguments the method rejects with FormatError before
\* it queues a request
transacted(st, request) ==
    IF st.sync
    THEN IF request.type = "malformed" THEN [st EXCEPT !.err = "FormatError"]
         ELSE [st EXCEPT !.requests = Append(@, request),
                         !.todo = <<Append(st.requests, request)[1]>>,
                         !.after = "transacted"]
    ELSE LET begun == IF st.transaction THEN st ELSE begin(st, FALSE)
             queued == [begun EXCEPT !.requests = Append(@, request)]
         IN IF request.type = "malformed"
            THEN [rollback(begun) EXCEPT !.err = "FormatError"]
            ELSE IF st.transaction THEN queued
            ELSE [commit(queued) EXCEPT !.after = "transacted, commit"]

\* a transacted method after the handlers
transactedEnd(st0) ==
    CHOOSE out \in
      { IF st.after = "transacted, commit"
        THEN CHOOSE o \in { IF done.err = "" THEN [done EXCEPT !.result = @[1]] ELSE done :
                            done \in {commitEnd(st)} } : TRUE
        ELSE IF st.err = ""
        THEN [st EXCEPT !.requests = <<>>,
                        !.result = transformResults(st.requests, st.results)[1]]
        ELSE CHOOSE o \in
               { [undone EXCEPT !.requests = <<>>,
                                !.err = IF undone.err # "" THEN undone.err ELSE st.err] :
                 undone \in {rollback([st EXCEPT !.err = ""])} } : TRUE :
        st \in {st0} } : TRUE

\* the method that handed requests to the handlers resumes
resume(st) ==
    IF st.after = "commit" THEN commitEnd(st)
    ELSE IF st.after = "" THEN st
    ELSE transactedEnd(st)

\* search conditions over the fields a and b
FacadeConditions ==
    LET leaves == {Leaf(p, StrVal("x"), i) : p \in {<<a>>, <<b>>}, i \in BOOLEAN}
    IN leaves
       \cup {Node(l, o, r, FALSE) : l \in leaves, r \in leaves, o \in {"AND", "OR"}}
       \cup {Node(Leaf(<<a>>, StrVal("x"), FALSE), o, Leaf(<<b>>, StrVal("x"), FALSE), TRUE) :
                o \in {"AND", "OR"}}
       \cup {Node(Node(Leaf(<<a>>, StrVal("x"), FALSE), "OR",
                       Leaf(<<b>>, StrVal("x"), FALSE), FALSE),
                  "AND", Leaf(<<b>>, StrVal("x"), TRUE), FALSE),
             NoCondition}

\* the requests queued in an asynchronous transaction
BatchRequests ==
    { [type |-> "modify", id |-> 1, path |-> <<a>>, fields |-> StrDoc,
       remove_conflicts |-> FALSE],
      [type |-> "insert", id |-> 1, path |-> <<a, None>>,
       field_groups |-> << <<Field(<<>>, StrVal("x"))>> >>, remove_conflicts |-> FALSE],
      [type |-> "delete", id |-> 1, fields |-> <<>>],
      [type |-> "read", id |-> 1, path |-> <<a>>, masks |-> {}],
      [type |-> "search", condition |-> Leaf(<<a>>, StrVal("x"), FALSE)],
      [type |-> "objectExists", id |-> 1],
      [type |-> "repair"],
      [type |-> "malformed"] }

\* the calls made on the connection
FacadeRequests ==
    BatchRequests
    \cup { [type |-> "modify", id |-> 2, path |-> p, fields |-> StrDoc,
            remove_conflicts |-> FALSE] : p \in {<<a, b>>, <<b>>} }
    \cup { [type |-> "search", condition |-> c] : c \in FacadeConditions }
    \cup { [type |-> "read", id |-> 2, path |-> <<>>, masks |-> {}],
           [type |-> "delete", id |-> 2, fields |-> << <<b>> >>],
           [type |-> "dump"] }

\* the connection as the variables hold it, before a call
Connection ==
    [transaction |-> transaction, sync |-> sync, requests |-> requests, engine |-> engine,
     db |-> Current, events |-> <<>>, results |-> <<>>, err |-> "", result |-> NoResult,
     todo |-> <<>>, after |-> ""]

\* the call returns, or raises st.err, and leaves the connection as st
Returns(st, name, arg) ==
    /\ WithinBounds(st.db)
    /\ Len(st.requests) <= MaxPending
    /\ transaction' = st.transaction
    /\ sync' = st.sync
    /\ requests' = st.requests
    /\ engine' = st.engine
    /\ id_table' = st.db.id_table
    /\ tables' = st.db.tables
    /\ rows' = st.db.rows
    /\ call' = [name |-> name, arg |-> arg, err |-> st.err, result |-> st.result,
                events |-> st.events, was_open |-> engine.open]
    /\ UNCHANGED <<last, document, fields_flat, tree, search_condition, propagated, before,
                 pair>>

\* beginSync() or beginAsync()
Begin == \E s \in BOOLEAN : \E st \in {begin(Connection, s)} : Returns(st, "begin", s)

\* rollback()
Rollback == \E st \in {rollback(Connection)} : Returns(st, "rollback", requests)

\* a transacted method, or commit(): the method's first half, the handlers, and
\* the rest of the method
Process ==
    \E c \in {[name |-> "commit", arg |-> requests, st |-> commit(Connection)]}
             \cup {[name |-> "request", arg |-> request,
                    st |-> transacted(Connection, request)] :
                      request \in IF transaction /\ ~sync THEN BatchRequests
                                  ELSE FacadeRequests} :
       \E ran \in {runHandlers(c.st)} : \E st \in {resume(ran)} :
          Returns(st, c.name, c.arg)

FacadeNext == Begin \/ Rollback \/ Process

FacadeSpec == Init /\ [][FacadeNext]_vars

\* two Connections, one statement at a time
TwoSpec == Init /\ [][TwoNext]_vars

(***************************************************************************)
(* Properties.                                                             *)
(***************************************************************************)
\* number of rows of object id in the per-field table tbl
RowCount(id, tbl) == BagSize(Select(rows, LAMBDA r : r.id = id /\ tableOf(r) = tbl))

specTable(x) == [field |-> x.field, type |-> x.type]

\* C1: refcount consistency: every specification row (id, field, type, r) has
\* exactly r rows with that id in the per-field table of (field, type).
C1_RefcountConsistency ==
    \A x \in id_table : RowCount(x.id, specTable(x)) = x.refcount

C1_Witness ==
    /\ last.op = "delete" /\ last.err = ""
    /\ \E x \in id_table : x.refcount >= 2

\* C2: specification completeness: exactly one specification row for every
\* (id, field, type) that has rows, and none (so none with refcount <= 0)
\* for a triple without rows.
C2_SpecificationComplete ==
    /\ \A r \in DOMAIN rows :
          \E x \in id_table : x.id = r.id /\ specTable(x) = tableOf(r)
    /\ \A x \in id_table :
          /\ x.refcount >= 1
          /\ \E r \in DOMAIN rows : r.id = x.id /\ tableOf(r) = specTable(x)
    /\ \A x, y \in id_table :
          (x.id = y.id /\ specTable(x) = specTable(y)) => x = y

C2_Witness ==
    /\ last.op = "delete" /\ last.err = ""
    /\ \E x, y \in id_table : x.id = y.id /\ x.field = y.field /\ x.type # y.type

\* C3: table lifecycle: after every request a per-field table exists iff it holds
\* a row, iff a specification row references it; and every deleteValues call
\* returned with the tables it emptied already dropped.
C3_TableLifecycle ==
    /\ tables = {tableOf(r) : r \in DOMAIN rows}
    /\ tables = {specTable(x) : x \in id_table}
    /\ last.dv_ok

C3_Witness ==
    /\ last.op = "delete" /\ last.err = ""
    /\ tables = {} /\ rows = EmptyBag

\* the values a bag of rows holds for object id at exactly this name
StoredAt(B, id, name) ==
    {[type |-> r.type, value |-> r.value] : r \in {x \in DOMAIN B : x.id = id /\ x.name = name}}

IsScalar(v) == v.type \notin {"map", "list"}

\* the rows of object id at or under path
SubtreeRows(B, id, path) == Select(B, LAMBDA r : r.id = id /\ IsPrefix(path, r.name))

\* the rows a payload written at path consists of
PayloadBag(id, path, fields) ==
    FoldSeq(LAMBDA B, f : B (+) SetToBag({[id |-> id, name |-> path \o f.name,
                                           type |-> f.type, value |-> f.value]}),
            EmptyBag, fields)

\* C4: dense list indices: the indices in use at every list position of every
\* object are 0..n-1, without gaps.
C4_DenseLists ==
    \A r \in DOMAIN rows : \A k \in DOMAIN r.name :
        isInt(r.name[k]) =>
            \A n \in 0..(r.name[k].i - 1) :
                \E r2 \in DOMAIN rows :
                    /\ r2.id = r.id /\ Len(r2.name) >= k
                    /\ SubSeq(r2.name, 1, k - 1) = SubSeq(r.name, 1, k - 1)
                    /\ r2.name[k] = I(n)

\* C5: no mixing: no path of an object holds a scalar together with a container
\* sentinel, nor both container sentinels.
C5_NoMixing ==
    \A id \in Ids : \A r \in DOMAIN rows :
        LET vals == StoredAt(rows, id, r.name)
        IN /\ ~(\E v, w \in vals : IsScalar(v) /\ ~IsScalar(w))
           /\ ~(EmptyMap \in vals /\ EmptyList \in vals)

\* C6: modify on a path at which the object stores something succeeds and leaves
\* at or under the path exactly the payload fields prefixed with the path.
C6_ModifyReplacesSubtree ==
    [][\A r \in ModifyRequests :
          (/\ last'.op = "replace"
           /\ StoredAt(rows, r.id, r.path) # {}
           /\ Modify(r.id, r.path, r.fields, r.remove_conflicts))
          => /\ last'.err = ""
             /\ SubtreeRows(rows', r.id, r.path) = PayloadBag(r.id, r.path, r.fields)]_vars

C6_Witness ==
    /\ last.op = "replace" /\ last.err = ""
    /\ \E r \in DOMAIN rows :
          /\ pointsToListElement(r.name) /\ r.type = "int"
          /\ StoredAt(rows, r.id, r.name) = {IntVal("1")}
          /\ \E r2 \in DOMAIN rows : r2.id = r.id /\ r2.name # r.name /\ Parent(r2.name) = Parent(r.name)

\* a write at path would mix types: a proper prefix is a map and the next segment
\* an integer, is a list and the next segment a string, or holds a scalar
WouldMix(id, path) ==
    \E k \in 0..(Len(path) - 1) :
        LET vals == StoredAt(rows, id, SubSeq(path, 1, k))
        IN \/ EmptyMap \in vals /\ isInt(path[k + 1])
           \/ EmptyList \in vals /\ isStr(path[k + 1])
           \/ \E v \in vals : IsScalar(v)

\* C7: modify with remove_conflicts = false fails with StructureError whenever
\* the write would mix types along a proper prefix of the path.
C7_ConflictRejected ==
    [][\A r \in ModifyRequests :
          (/\ ~r.remove_conflicts
           /\ WouldMix(r.id, r.path)
           /\ Modify(r.id, r.path, r.fields, r.remove_conflicts))
          => last'.err = "StructureError"]_vars

\* the shortest conflicting prefix of path
ConflictPrefix(id, path) ==
    LET ks == {k \in 0..(Len(path) - 1) : WouldMix(id, SubSeq(path, 1, k + 1))}
    IN CHOOSE k \in ks : \A j \in ks : k <= j

SentinelFor(elem) == IF isStr(elem) THEN EmptyMap ELSE EmptyList

\* C8: modify with remove_conflicts = true on a path with a conflicting prefix q
\* succeeds; nothing of the old subtree at q remains; every prefix from q to the
\* parent of the path holds the sentinel matching its next segment; every new list
\* is padded with null below the used index; the payload is stored at the path.
C8_ConflictRemoved ==
    [][\A r \in ModifyRequests :
          (/\ r.remove_conflicts
           /\ WouldMix(r.id, r.path)
           /\ Modify(r.id, r.path, r.fields, r.remove_conflicts))
          => LET k == ConflictPrefix(r.id, r.path)
                 q == SubSeq(r.path, 1, k)
                 chain == {[id |-> r.id, name |-> SubSeq(r.path, 1, j),
                            type |-> SentinelFor(r.path[j + 1]).type,
                            value |-> SentinelFor(r.path[j + 1]).value] :
                              j \in k..(Len(r.path) - 1)}
                 pads == {[id |-> r.id, name |-> Append(SubSeq(r.path, 1, j - 1), I(n)),
                           type |-> Null.type, value |-> Null.value] :
                              j \in {i \in (k + 1)..Len(r.path) : isInt(r.path[i])},
                              n \in 0..MaxIndex}
                 needed == {x \in pads : x.name[Len(x.name)].i < r.path[Len(x.name)].i}
             IN /\ last'.err = ""
                /\ SubtreeRows(rows', r.id, r.path) = PayloadBag(r.id, r.path, r.fields)
                /\ Select(rows', LAMBDA x : x.id = r.id /\ IsPrefix(q, x.name)
                                            /\ ~IsPrefix(r.path, x.name))
                   = SetToBag(chain \cup needed)]_vars

\* names that several fields of a payload share and that are no list elements
RepeatedNames(fields) ==
    {fields[j].name : j \in {i \in DOMAIN fields :
        /\ ~pointsToListElement(fields[i].name)
        /\ \E k \in DOMAIN fields : k # i /\ fields[k].name = fields[i].name}}

LastWith(fields, name) ==
    fields[CHOOSE j \in DOMAIN fields :
              /\ fields[j].name = name
              /\ \A k \in DOMAIN fields : fields[k].name = name => k <= j]

LastOneWins(B, id, path, fields) ==
    \A name \in RepeatedNames(fields) :
        Select(B, LAMBDA r : r.id = id /\ r.name = path \o name)
        = PayloadBag(id, path, <<LastWith(fields, name)>>)

\* C9: of several payload fields with the same non-list path only the last is
\* stored by create and by modify; that path then reads back as that one value.
C9_LastOneWins ==
    [][/\ \A r \in {x \in ModifyRequests : RepeatedNames(x.fields) # {}} :
             (Modify(r.id, r.path, r.fields, r.remove_conflicts) /\ last'.err = "")
             => LastOneWins(rows', r.id, r.path, r.fields)
       /\ \A fields \in {x \in CreatePayloads : RepeatedNames(x) # {}} :
             (Create(fields) /\ last'.err = "")
             => LastOneWins(rows', getNewId(Current), <<>>, fields)]_vars

NestedReplacesScalar(B, id, path, fields) ==
    \A j, k \in DOMAIN fields :
        (/\ j < k
         /\ IsScalar(fields[j])
         /\ Len(fields[j].name) < Len(fields[k].name)
         /\ IsPrefix(fields[j].name, fields[k].name))
        => /\ \A v \in StoredAt(B, id, path \o fields[j].name) : ~IsScalar(v)
           /\ [type |-> fields[k].type, value |-> fields[k].value]
                 \in StoredAt(B, id, path \o fields[k].name)

\* C10: a payload field written under a path p after a scalar was written at p
\* replaces that scalar: no scalar is stored at p afterwards, only the nested
\* field, for map entries and for list elements.
C10_NestedReplacesScalar ==
    [][/\ \A r \in ModifyRequests :
             (Modify(r.id, r.path, r.fields, r.remove_conflicts) /\ last'.err = "")
             => NestedReplacesScalar(rows', r.id, r.path, r.fields)
       /\ \A fields \in CreatePayloads :
             (Create(fields) /\ last'.err = "")
             => NestedReplacesScalar(rows', getNewId(Current), <<>>, fields)]_vars

\* the list indexes in use directly under the list path L of object id
UsedIndices(B, id, L) ==
    {r.name[Len(L) + 1].i :
        r \in {x \in DOMAIN B : x.id = id /\ IsPrefix(L, x.name) /\ Len(x.name) > Len(L)
                                  /\ isInt(x.name[Len(L) + 1])}}

\* the rows at or under element j of the list L
ElementRows(B, id, L, j) == SubtreeRows(B, id, Append(L, I(j)))

\* the payload of request r holds fields for the elements n and n + 1 of list L
AddsTwo(r, L, n) ==
    /\ \E k \in DOMAIN r.fields : r.path \o r.fields[k].name = Append(L, I(n))
    /\ \E k \in DOMAIN r.fields : r.path \o r.fields[k].name = Append(L, I(n + 1))

\* C11: a modify whose fields address the elements n and n+1 of a list of n
\* elements keeps the n elements unchanged and adds the two: afterwards the
\* list has the elements 0..n+1.
C11_ListAdditions ==
    [][\A r \in ModifyRequests : \A n \in 1..MaxIndex :
          (/\ AddsTwo(r, <<a>>, n)
           /\ UsedIndices(rows, r.id, <<a>>) = 0..(n - 1)
           /\ Modify(r.id, r.path, r.fields, r.remove_conflicts))
          => /\ last'.err = ""
             /\ \A j \in 0..(n - 1) :
                   ElementRows(rows', r.id, <<a>>, j) = ElementRows(rows, r.id, <<a>>, j)
             /\ UsedIndices(rows', r.id, <<a>>) = 0..(n + 1)]_vars

\* the parent of an insertion point is a list or stores nothing
ListOrAbsent(id, L) == StoredAt(rows, id, L) \subseteq {EmptyList}

MaxOf(S) == CHOOSE m \in S : \A n \in S : n <= m

\* the groups are stored as the elements first, first + 1, ... of the list L
GroupsStoredFrom(B, id, L, field_groups, first) ==
    \A g \in DOMAIN field_groups :
        ElementRows(B, id, L, first + g - 1)
        = PayloadBag(id, Append(L, I(first + g - 1)), field_groups[g])

ShiftRows(B, col, shift) ==
    LET move(r) == [r EXCEPT !.name[col] = I(@.i + shift)]
    IN [y \in {move(r) : r \in DOMAIN B} |-> B[CHOOSE r \in DOMAIN B : move(r) = y]]

StripIndex(B, col) ==
    LET strip(r) == [r EXCEPT !.name[col] = None]
    IN [y \in {strip(r) : r \in DOMAIN B} |->
            SumOver(B, {r \in DOMAIN B : strip(r) = y})]

\* the parent is a list and the insert used it as it is: the sentinel untouched,
\* the elements kept (possibly at a higher index)
ListUsedAsIs(r) ==
    LET P == Parent(r.path)
        under(B) == Select(B, LAMBDA x : x.id = r.id /\ IsPrefix(P, x.name) /\ x.name # P)
    IN /\ last'.err = ""
       /\ Select(rows', LAMBDA x : x.id = r.id /\ x.name = P)
          = Select(rows, LAMBDA x : x.id = r.id /\ x.name = P)
       /\ StripIndex(under(rows), Len(r.path)) \sqsubseteq StripIndex(under(rows'), Len(r.path))

ListAutocreated(r) ==
    /\ last'.err = ""
    /\ EmptyList \in StoredAt(rows', r.id, Parent(r.path))

OutsideList(B, id, L) ==
    Select(B, LAMBDA x : ~(/\ x.id = id /\ IsPrefix(L, x.name) /\ Len(x.name) > Len(L)
                           /\ isInt(x.name[Len(L)+1])))

\* C15: delete(id, [path ending in integer k]) removes every row at or under
\* element k, moves every element j > k with its subtree to j-1, and leaves the
\* elements below k and everything outside the list unchanged.
C15_DeleteElement ==
    [][\A path \in DeletePaths :
          (/\ last'.op \in {"shift", "delete"}
           /\ Len(path) > 0 /\ isInt(path[Len(path)])
           /\ Delete(1, <<path>>))
          => LET L == Parent(path)
                 k == path[Len(path)].i
                 used == UsedIndices(rows, 1, L)
             IN /\ last'.err = ""
                /\ \A j \in 0..MaxIndex :
                      IF j < k THEN ElementRows(rows', 1, L, j) = ElementRows(rows, 1, L, j)
                      ELSE IF j < MaxIndex
                      THEN ElementRows(rows', 1, L, j)
                           = ShiftRows(ElementRows(rows, 1, L, j+1), Len(path), -1)
                      ELSE ElementRows(rows', 1, L, j) = EmptyBag
                /\ OutsideList(rows', 1, L) = OutsideList(rows, 1, L)]_vars

C15_Witness ==
    /\ last.op = "shift" /\ last.err = ""
    /\ StoredAt(rows, 1, <<a>>) = {EmptyList}
    /\ StoredAt(rows, 1, <<a, I(0), b>>) = {StrVal("x")}
    /\ UsedIndices(rows, 1, <<a>>) = {0}

\* the document of object id satisfies the condition (leaf: the value stored at
\* the name equals the literal; NOT, AND, OR with their logical meaning)
RECURSIVE Satisfies(_, _, _)
Satisfies(B, id, c) ==
    IF "null" \in DOMAIN c THEN TRUE
    ELSE IF c.leaf
    THEN (\E r \in DOMAIN B : /\ r.id = id /\ r.name = c.name
                              /\ r.type = c.value.type /\ r.value = c.value.value)
         # c.invert
    ELSE (IF c.operator = "AND"
          THEN Satisfies(B, id, c.operand1) /\ Satisfies(B, id, c.operand2)
          ELSE Satisfies(B, id, c.operand1) \/ Satisfies(B, id, c.operand2))
         # c.invert

Scan(c) == {id \in Ids : objectExists(Current, id) /\ Satisfies(rows, id, c)}

\* C20: search equivalence: in every reachable state, for every condition tree,
\* search returns exactly the ids of the existing objects whose document
\* satisfies the condition.
C20_SearchEquivalence ==
    \A c \in SearchConditions : search(Current, c) = Scan(c)

\* the request writes a field the leaf c matches
Writes(r, c) ==
    \E k \in DOMAIN r.fields :
        /\ r.path \o r.fields[k].name = c.name
        /\ r.fields[k].type = c.value.type /\ r.fields[k].value = c.value.value

\* C16: after delete(id) with no fields no specification row and no per-field
\* row bears the id, objectExists(id) is false, and when an object is then
\* written under the same id, a search on a field the old object had (and the
\* new one was not given) does not return it.
C16_DeleteObject ==
    [][\A id \in Ids :
          (/\ last'.op \in {"drop", "delete"}
           /\ DeleteWhole(id))
          => /\ last'.err = ""
             /\ \A x \in id_table' : x.id # id
             /\ \A r \in DOMAIN rows' : r.id # id
             /\ ~objectExists(Current', id)
             /\ \A c \in SearchConditions : id \notin search(Current', c)
             /\ \A c \in {x \in SearchLeaves : ~x.invert /\ id \in search(Current, x)} :
                   \A r \in {x \in DocModifyRequests \cup RawModifyRequests : ~Writes(x, c)} :
                      LET again == modifyFields(Current', id, r.path, r.fields,
                                                r.remove_conflicts)
                      IN again.err = "" => id \notin search(again, c)]_vars

C16_Witness ==
    /\ last.op = "drop" /\ last.err = ""
    /\ \A r \in DOMAIN rows : r.id # 1
    /\ \A x \in id_table : x.id # 1
    /\ \E r \in DOMAIN rows : r.id = 2

\* a stored field of the object matches what the request asks for
StoredMatch(rq) ==
    \E r \in DOMAIN rows :
        /\ r.id = rq.id
        /\ IF rq.masks = {} THEN matches(r.name, rq.path)
           ELSE \E mask \in rq.masks :
                   /\ rq.path = <<>> \/ matches(mask, rq.path)
                   /\ matches(r.name, mask)

\* C17: a read fails with LogicError exactly when no stored field matches the
\* object, path and masks of the request; a path that stores an explicit null
\* is read successfully and the null is returned.
C17_ReadError ==
    \A rq \in ReadRequests :
        LET res == processReadRequest(Current, rq.id, rq.path, rq.masks)
        IN /\ res.err = "LogicError" <=> ~StoredMatch(rq)
           /\ res.err \in {"", "LogicError"}
           /\ (rq.masks = {} /\ Null \in StoredAt(rows, rq.id, rq.path))
              => /\ res.err = ""
                 /\ Field(<<>>, Null) \in res.result

\* the request is one the facade builds: every mask extends the path
FromFacade(rq) == \A mask \in rq.masks : IsPrefix(rq.path, mask)

\* what holds of read: the same, for the requests the facade builds
ReadErrorFromFacade ==
    \A rq \in {x \in ReadRequests : FromFacade(x)} :
        LET res == processReadRequest(Current, rq.id, rq.path, rq.masks)
        IN /\ res.err = "LogicError" <=> ~StoredMatch(rq)
           /\ res.err \in {"", "LogicError"}
           /\ (rq.masks = {} /\ Null \in StoredAt(rows, rq.id, rq.path))
              => /\ res.err = ""
                 /\ Field(<<>>, Null) \in res.result

\* the rows of object id that are not at or under path
OtherRows(B, id, path) == Select(B, LAMBDA x : x.id = id /\ ~IsPrefix(path, x.name))

Comparable(p, q) == IsPrefix(p, q) \/ IsPrefix(q, p)

\* the fields of the object outside the path are stored, read and found as before
OthersPreserved(r) ==
    /\ OtherRows(rows, r.id, r.path) \sqsubseteq OtherRows(rows', r.id, r.path)
    /\ \A x \in DOMAIN OtherRows(rows', r.id, r.path) :
          x \in DOMAIN rows \/ x.type \in {"null", "map", "list"}
    /\ \A q \in {x \in ReadPaths : /\ determined(x) /\ ~Comparable(x, r.path)
                                    /\ SubtreeRows(rows, r.id, x) # EmptyBag} :
          processReadRequest(Current', r.id, q, {}) = processReadRequest(Current, r.id, q, {})
    /\ \A c \in {x \in SearchLeaves : ~x.invert /\ ~IsPrefix(r.path, x.name)} :
          r.id \in search(Current', c) <=> r.id \in search(Current, c)

\* the step may be the successful modify r: its tag and its payload are there
MayBeModify(r) ==
    /\ last'.err = ""
    /\ last'.op = (IF \E x \in DOMAIN rows : x.id = r.id /\ x.name = r.path
                   THEN "replace" ELSE "modify")
    /\ \A k \in DOMAIN r.fields :
          \E x \in DOMAIN rows' : /\ x.id = r.id /\ x.name = r.path \o r.fields[k].name
                                   /\ x.type = r.fields[k].type /\ x.value = r.fields[k].value

C19_RoundTrip == tree # Absent => tree = document

C19_Witness ==
    /\ tree = document
    /\ document = Dict([k \in Keys |-> IF k = "a" THEN List(<<Null, StrVal("x")>>)
                                       ELSE EmptyDict])

\* the values object id stores at exactly the name of the leaf
ValuesAtLeaf(B, id, c) ==
    {[type |-> r.type, value |-> r.value] : r \in {x \in DOMAIN B : x.id = id /\ x.name = c.name}}

\* C21: an inverted leaf returns every existing object that stores at the field
\* a value other than the literal, and every existing object that stores
\* nothing at that path (whatever it stores at other list indexes or types).
C21_InvertedLeaf ==
    \A c \in {x \in SearchLeaves : x.invert} :
        search(Current, c)
        = {id \in Ids : /\ objectExists(Current, id)
                        /\ \/ ValuesAtLeaf(rows, id, c) = {}
                           \/ ValuesAtLeaf(rows, id, c) \ {c.value} # {}}

\* no interior node of the tree carries invert
RECURSIVE NoInteriorInvert(_)
NoInteriorInvert(c) ==
    c.leaf \/ (~c.invert /\ NoInteriorInvert(c.operand1) /\ NoInteriorInvert(c.operand2))

\* the object that stores "x" at exactly the names in T, as rows of object 1
ObjectStoring(T) ==
    [r \in {[id |-> 1, name |-> p, type |-> "str", value |-> "x"] : p \in T} |-> 1]

\* C23: propagating the inversion yields a tree with the same truth value on
\* every object and with no inverted interior node; propagating it once more
\* changes nothing.
C23_NotPropagation ==
    propagated # <<>> =>
        /\ \A T \in SUBSET {<<a>>, <<b>>} :
              Satisfies(ObjectStoring(T), 1, propagated[1])
              = Satisfies(ObjectStoring(T), 1, search_condition)
        /\ NoInteriorInvert(propagated[1])
        /\ Len(propagated) = 2 => propagated[2] = propagated[1]

\* an inverted AND over an inverted OR has been normalised, twice
C23_Witness ==
    /\ search_condition = Node(Node(Leaf(<<a>>, StrVal("x"), FALSE), "OR",
                             Leaf(<<b>>, StrVal("x"), TRUE), TRUE),
                        "AND", Leaf(<<b>>, StrVal("x"), FALSE), TRUE)
    /\ Len(propagated) = 2
    /\ propagated[1] = Node(Node(Leaf(<<a>>, StrVal("x"), FALSE), "OR",
                                 Leaf(<<b>>, StrVal("x"), TRUE), FALSE),
                            "OR", Leaf(<<b>>, StrVal("x"), TRUE), FALSE)

\* the database with the specification table it had before the damage
Undamaged == DB(before.id_table, tables, rows, "")

\* C24: repair() after any damage to the specification table leaves exactly one
\* row (id, field, type, count) for every id/field/type with count >= 1 rows in
\* the per-field tables, changes no per-field table, and objectExists, read and
\* search return what they returned before the damage.
C24_RepairRecovers ==
    [][last'.op = "recover" =>
          /\ last'.err = ""
          /\ rows' = rows /\ tables' = tables
          /\ \A x \in id_table' :
                /\ x.refcount >= 1
                /\ x.refcount = BagSize(Select(rows, LAMBDA r : r.id = x.id
                                                 /\ tableOf(r) = specTable(x)))
                /\ \A y \in id_table' : (y.id = x.id /\ specTable(y) = specTable(x)) => y = x
          /\ \A r \in DOMAIN rows :
                \E x \in id_table' : x.id = r.id /\ specTable(x) = tableOf(r)
          /\ \A id \in Ids : objectExists(Current', id) = objectExists(Undamaged, id)
          /\ \A rq \in {x \in ReadRequests : x.masks = {}} :
                processReadRequest(Current', rq.id, rq.path, rq.masks)
                = processReadRequest(Undamaged, rq.id, rq.path, rq.masks)
          /\ \A c \in SearchConditions : search(Current', c) = search(Undamaged, c)]_vars

\* the specification table of an object with two strings in a list was
\* dropped and rebuilt
C24_Witness ==
    /\ last.op = "recover" /\ last.err = ""
    /\ before.damage = {} /\ before.id_table # {}
    /\ \E x \in id_table : x.id = 1 /\ x.field = <<a, None>> /\ x.type = "str"
                             /\ x.refcount = 2
    /\ id_table = before.id_table

\* the last call was a request that ran its handler at the call
Executed(type) ==
    /\ call.name = "request"
    /\ call.arg.type = type
    /\ \E k \in DOMAIN call.events : call.events[k] = "handler"

\* C22: a search whose single leaf reads a field and type with no table returns
\* nothing when the leaf is not inverted and the ids of all objects when it is,
\* and raises nothing
C22_LeafWithoutTable ==
    (/\ Executed("search")
     /\ "leaf" \in DOMAIN call.arg.condition
     /\ call.arg.condition.leaf
     /\ leafTable(call.arg.condition) \notin tables)
    => /\ call.err = ""
       /\ call.result = IF call.arg.condition.invert THEN allIds(Current) ELSE {}

\* an inverted leaf on a missing table found the objects of the database
C22_Witness ==
    /\ Executed("search")
    /\ "leaf" \in DOMAIN call.arg.condition
    /\ call.arg.condition.leaf
    /\ call.arg.condition.invert
    /\ leafTable(call.arg.condition) \notin tables
    /\ call.err = ""
    /\ call.result = allIds(Current)
    /\ call.result # {}

\* what read(id) returns for the whole object
ReadAll(id) == fieldsToTree(asList(processReadRequest(Current, id, <<>>, {}).result))

\* C25: dump returns alternating entries id, contents in which every object
\* appears exactly once, followed by the result of read(id) for it; a search
\* with the null condition returns the id of every object
C25_Dump ==
    /\ Executed("dump") =>
          /\ call.err = ""
          /\ Len(call.result) = 2 * Cardinality(allIds(Current))
          /\ {call.result[2 * k - 1] : k \in 1..Cardinality(allIds(Current))}
                = allIds(Current)
          /\ \A k \in 1..Cardinality(allIds(Current)) :
                call.result[2 * k] = ReadAll(call.result[2 * k - 1])
    /\ (Executed("search") /\ call.arg.condition = NoCondition) =>
          call.err = "" /\ call.result = allIds(Current)

\* a dump of two objects
C25_Witness ==
    /\ Executed("dump")
    /\ Len(call.result) = 4
    /\ call.result[1] # call.result[3]
    /\ call.result[2] = ReadAll(call.result[1])
    /\ call.result[4] = ReadAll(call.result[3])
    /\ call.result[2] # call.result[4]

\* C26: a request that fails with a Format, Structure or Logic error inside a
\* synchronous or an asynchronous transaction ends the transaction and leaves
\* no write of that transaction in the database
C26_RollbackOnError ==
    [][(/\ transaction
        /\ call'.name = "request"
        /\ call'.err \in {"FormatError", "StructureError", "LogicError"})
       => /\ ~transaction'
          /\ sync => <<id_table', tables', rows'>>
                        = <<engine.saved.id_table, engine.saved.tables, engine.saved.rows>>
          /\ ~sync => requests' = <<>> /\ UNCHANGED <<id_table, tables, rows>>]_vars

\* the same for a synchronous transaction whose request reached its handler
C26_HandlerFailure ==
    [][(/\ transaction
        /\ sync
        /\ call'.name = "request"
        /\ call'.err \in {"StructureError", "LogicError"})
       => /\ ~transaction'
          /\ <<id_table', tables', rows'>>
                = <<engine.saved.id_table, engine.saved.tables, engine.saved.rows>>]_vars

\* the same for an asynchronous transaction
C26_AsyncFailure ==
    [][(/\ transaction
        /\ ~sync
        /\ call'.err \in {"FormatError", "StructureError", "LogicError"})
       => /\ ~transaction'
          /\ requests' = <<>>
          /\ UNCHANGED <<id_table, tables, rows>>]_vars

\* the engine calls and handler runs of a call are well scoped: no begin while
\* the engine's transaction is open, no commit, rollback or handler while it
\* is not
RECURSIVE WellScoped(_, _)
WellScoped(open, events) ==
    IF events = <<>> THEN TRUE
    ELSE IF Head(events) = "begin" THEN ~open /\ WellScoped(TRUE, Tail(events))
    ELSE IF Head(events) = "handler" THEN open /\ WellScoped(open, Tail(events))
    ELSE open /\ WellScoped(FALSE, Tail(events))

\* C27: every engine begin is followed by exactly one engine commit or rollback
\* before the next engine begin, and every handler runs between an engine begin
\* and its commit or rollback
C27_ScopedTransactions == WellScoped(call.was_open, call.events)

\* C28: begin while a transaction is in progress, and commit or rollback while
\* none is, fail with FacadeError and leave the transaction state, the pending
\* requests and the database unchanged
C28_TransactionStateErrors ==
    [][(\/ call'.name = "begin" /\ transaction
        \/ call'.name \in {"commit", "rollback"} /\ ~transaction)
       => /\ call'.err = "FacadeError"
          /\ call'.events = <<>>
          /\ UNCHANGED <<transaction, sync, requests, engine, id_table, tables, rows>>]_vars

\* begin failed inside an asynchronous transaction with a pending request
C28_Witness ==
    /\ call.name = "begin"
    /\ call.err = "FacadeError"
    /\ transaction
    /\ ~sync
    /\ requests # <<>>

\* the database after the requests ran one after the other
RECURSIVE dbAfter(_, _)
dbAfter(db, reqs) ==
    IF reqs = <<>> THEN db ELSE dbAfter(handle(db, Head(reqs)).db, Tail(reqs))

\* what a request returns to the user when it runs on db
Answer(db, request) == transformResults(<<request>>, <<handle(db, request).result>>)[1]

\* C29: a request issued inside an asynchronous transaction is not executed
\* until commit; commit executes the requests in the order they were issued
\* inside one engine transaction and returns one result per request in that
\* order, None for modify, insert, delete and repair; in a synchronous
\* transaction a request is executed and its result returned at the call
C29_AsyncBatching ==
    [][/\ (transaction /\ ~sync /\ call'.name = "request" /\ call'.err = "")
          => /\ call'.events = <<>>
             /\ call'.result = NoResult
             /\ requests' = Append(requests, call'.arg)
             /\ UNCHANGED <<id_table, tables, rows>>
       /\ (transaction /\ ~sync /\ call'.name = "commit" /\ call'.err = "")
          => /\ call'.events
                  = <<"begin">> \o [k \in DOMAIN requests |-> "handler"] \o <<"commit">>
             /\ Len(call'.result) = Len(requests)
             /\ \A k \in DOMAIN requests :
                   /\ call'.result[k]
                         = Answer(dbAfter(Current, SubSeq(requests, 1, k - 1)), requests[k])
                   /\ requests[k].type \in {"modify", "insert", "delete", "repair"}
                         => call'.result[k] = NoResult
             /\ <<id_table', tables', rows'>>
                   = LET db == dbAfter(Current, requests)
                     IN <<db.id_table, db.tables, db.rows>>
       /\ (transaction /\ sync /\ call'.name = "request" /\ call'.err = "")
          => /\ call'.events = <<"handler">>
             /\ call'.result = Answer(Current, call'.arg)
             /\ <<id_table', tables', rows'>>
                   = LET db == handle(Current, call'.arg).db
                     IN <<db.id_table, db.tables, db.rows>>]_vars

\* a commit returned None for a modify and then what the read that followed it
\* found
C29_Witness ==
    /\ call.name = "commit"
    /\ call.err = ""
    /\ call.events = <<"begin", "handler", "handler", "commit">>
    /\ Len(call.result) = 2
    /\ call.arg[1].type = "modify"
    /\ call.arg[2].type = "read"
    /\ call.result[1] = NoResult
    /\ call.result[2] = Answer(Current, call.arg[2])
    /\ call.result[2] # NoResult

\* the condition of the last search as the handler got it
Prepared == propagateInversion(call.arg.condition)

\* C30: after NOT-propagation a search for L AND R returns the intersection and
\* a search for L OR R the union of what the searches for L and for R return,
\* also when L or R reads a field that has no table
C30_Composition ==
    (/\ Executed("search")
     /\ "leaf" \in DOMAIN call.arg.condition
     /\ ~call.arg.condition.leaf)
    => /\ call.err = ""
       /\ ~Prepared.invert
       /\ call.result
             = IF Prepared.operator = "AND"
               THEN processSearchRequest(Current, Prepared.operand1)
                       \cap processSearchRequest(Current, Prepared.operand2)
               ELSE processSearchRequest(Current, Prepared.operand1)
                       \cup processSearchRequest(Current, Prepared.operand2)

\* a disjunction one operand of which reads a field without a table found an
\* object by the other operand
C30_Witness ==
    /\ Executed("search")
    /\ "leaf" \in DOMAIN call.arg.condition
    /\ ~call.arg.condition.leaf
    /\ Prepared.operator = "OR"
    /\ Prepared.operand1.leaf
    /\ Prepared.operand2.leaf
    /\ ~Prepared.operand2.invert
    /\ leafTable(Prepared.operand1) \in tables
    /\ leafTable(Prepared.operand2) \notin tables
    /\ call.result = processSearchRequest(Current, Prepared.operand1)
    /\ call.result # {}

\* the null fields stored at element j of the list L itself
NullsAt(B, id, L, j) ==
    Select(B, LAMBDA r : r.id = id /\ r.name = Append(L, I(j)) /\ r.type = "null")

\* a successful request with index i at position k of its path left the list at
\* path[:k-1] padded: one null at each of max+1 .. i-1 and nothing else there,
\* no null added elsewhere, the elements it had untouched
Padded(id, path, k) ==
    LET L == SubSeq(path, 1, k - 1)
        i == path[k].i
        used == UsedIndices(rows, id, L)
        max == IF used = {} THEN NoIndex ELSE MaxOf(used)
    IN max < i - 1
       => \A j \in 0..(MaxIndex + 1) :
             /\ (max < j /\ j < i) =>
                   ElementRows(rows', id, L, j)
                      = SetToBag({[id |-> id, name |-> Append(L, I(j)),
                                   type |-> "null", value |-> "None"]})
             /\ (j <= max \/ j >= i) =>
                   NullsAt(rows', id, L, j) \sqsubseteq NullsAt(rows, id, L, j)
             /\ j \in used => ElementRows(rows', id, L, j) = ElementRows(rows, id, L, j)

\* C31: an insert at an integer index i > 0, or a modify of a new path through
\* list index i, of a list whose largest index is below i - 1 (or which is
\* empty) writes null fields at exactly the indices max+1 .. i-1 and overwrites
\* no element
C31_NullPadding ==
    [][/\ \A r \in DocModifyRequests : \A k \in DOMAIN r.path :
             (/\ isInt(r.path[k])
              /\ last'.op = "modify"
              /\ last'.err = ""
              /\ ~WouldMix(r.id, r.path)
              /\ Modify(r.id, r.path, r.fields, r.remove_conflicts))
             => Padded(r.id, r.path, k)
       /\ \A r \in InsertRequests :
             (/\ isInt(r.path[Len(r.path)])
              /\ r.path[Len(r.path)].i > 0
              /\ last'.op = "insert"
              /\ last'.err = ""
              /\ ListOrAbsent(r.id, Parent(r.path))
              /\ ~WouldMix(r.id, r.path)
              /\ Insert(r.id, r.path, r.field_groups, r.remove_conflicts))
             => Padded(r.id, r.path, Len(r.path))]_vars

\* the same where the index is the last list index of the path
C31_LastIndex ==
    [][/\ \A r \in DocModifyRequests : \A k \in DOMAIN r.path :
             (/\ isInt(r.path[k])
              /\ \A n \in (k + 1)..Len(r.path) : ~isInt(r.path[n])
              /\ last'.op = "modify"
              /\ last'.err = ""
              /\ ~WouldMix(r.id, r.path)
              /\ Modify(r.id, r.path, r.fields, r.remove_conflicts))
             => Padded(r.id, r.path, k)
       /\ \A r \in InsertRequests :
             (/\ isInt(r.path[Len(r.path)])
              /\ r.path[Len(r.path)].i > 0
              /\ last'.op = "insert"
              /\ last'.err = ""
              /\ ListOrAbsent(r.id, Parent(r.path))
              /\ ~WouldMix(r.id, r.path)
              /\ Insert(r.id, r.path, r.field_groups, r.remove_conflicts))
             => Padded(r.id, r.path, Len(r.path))]_vars

\* the node of a tree at a path
RECURSIVE nodeAt(_, _)
nodeAt(node, path) ==
    IF path = <<>> THEN node ELSE nodeAt(getItem(node, path[1]), Tail(path))

\* C32: the tree built from the fields of a document taken in any order is the
\* document; the sentinel of a container does not replace the container made
\* for a child field, whichever of the two comes first
C32_OrderIndependent ==
    tree # Absent =>
       /\ tree = document
       /\ \A k, j \in DOMAIN fields_flat :
             (/\ fields_flat[k].type \in {"map", "list"}
              /\ IsPrefix(fields_flat[k].name, fields_flat[j].name)
              /\ fields_flat[k].name # fields_flat[j].name)
             => nodeAt(tree, fields_flat[k].name) # py_value(fields_flat[k])

\* a list of two lists built with every sentinel behind the child fields
C32_Witness ==
    /\ tree = document
    /\ document = List(<<List(<<StrVal("x")>>), List(<<Null>>)>>)
    /\ fields_flat = <<Field(<<I(1), I(0)>>, Null), Field(<<I(0), I(0)>>, StrVal("x")),
                       Field(<<I(1)>>, EmptyList), Field(<<I(0)>>, EmptyList),
                       Field(<<>>, EmptyList)>>

\* a row name is at or under the path, a wildcard of the path standing for any
\* list index
Under(path, rname) ==
    /\ Len(path) <= Len(rname)
    /\ \A k \in DOMAIN path : rname[k] = path[k] \/ (path[k] = None /\ isInt(rname[k]))

\* the object stores nothing at or under the path
StoresNothing(id, path) == \A r \in DOMAIN rows : r.id = id => ~Under(path, r.name)

\* C33: a delete for a path at which the object stores nothing (unknown field,
\* unknown prefix, list index beyond the end, unknown object) raises no error
\* and leaves the specification table and the field tables as they are, no
\* list element renumbered
C33_DeleteNothing ==
    [][\A path \in DeletePaths :
          (/\ StoresNothing(1, path)
           /\ Delete(1, <<path>>))
          => last'.err = "" /\ UNCHANGED <<id_table, tables, rows>>]_vars

\* the same for an index behind the last element of the list
C33_BeyondTheEnd ==
    [][\A path \in DeletePaths :
          (/\ StoresNothing(1, path)
           /\ pointsToListElement(path) =>
                 \A j \in UsedIndices(rows, 1, Parent(path)) : j < path[Len(path)].i
           /\ Delete(1, <<path>>))
          => last'.err = "" /\ UNCHANGED <<id_table, tables, rows>>]_vars

\* C34: whenever no transaction is in progress the list of pending requests is
\* empty: the requests of an asynchronous transaction that was rolled back, or
\* whose commit failed, are not there for a later transaction to execute
C34_DiscardedBatches == ~transaction => requests = <<>>

\* an asynchronous transaction with two pending requests was rolled back
C34_Witness ==
    /\ call.name = "rollback"
    /\ call.err = ""
    /\ call.events = <<>>
    /\ Len(call.arg) = 2
    /\ ~transaction
    /\ requests = <<>>

\* C38: the synchronous-mode flag of the connection is set only while a
\* transaction is in progress
C38_SyncFollowsTransaction == sync => transaction

\* the same after a synchronous transaction that ended by commit
C38_AfterCommit == (call.name = "commit" /\ call.err = "") => ~sync

\* C35: for every stored field of an object with a non-empty path, the parent
\* path stores the empty-list sentinel when the last segment of the path is an
\* integer and the empty-map sentinel when it is a string
C35_SentinelsBackFields ==
    \A r \in DOMAIN rows :
        Len(r.name) > 0
        => SentinelFor(r.name[Len(r.name)]) \in StoredAt(rows, r.id, Parent(r.name))

\* C36: for every object and every fully determined path at most one row is
\* stored at the path, over the field tables of all value types
C36_OneValuePerPath ==
    \A r \in DOMAIN rows :
        /\ rows[r] = 1
        /\ \A q \in DOMAIN rows : (q.id = r.id /\ q.name = r.name) => q = r

\* the handler left the database as it is, or raised something else than
\* StructureError
Untouched(db) ==
    db.err = "StructureError"
    => <<db.id_table, db.tables, db.rows>> = <<id_table, tables, rows>>

\* C37: when a modify or an insert fails with StructureError, its handler has
\* changed neither the specification table nor a field table at the moment
\* the error is raised
C37_NoWriteBeforeStructureError ==
    /\ \A r \in ModifyRequests :
          \A db \in {modifyFields(Current, r.id, r.path, r.fields, r.remove_conflicts)} :
              Untouched(db)
    /\ \A r \in InsertRequests :
          \A db \in {processInsertRequest(Current, r.id, r.path, r.field_groups,
                                          r.remove_conflicts)} :
              Untouched(db)

\* a modify failed with StructureError
C37_Witness ==
    /\ last.op = "modify"
    /\ last.err = "StructureError"
    /\ rows # EmptyBag

\* the step left alone what object id stores: its field rows, its
\* specification rows and what a read of it returns
LeftAlone(id) ==
    /\ Select(rows', LAMBDA r : r.id = id) = Select(rows, LAMBDA r : r.id = id)
    /\ {x \in id_table' : x.id = id} = {x \in id_table : x.id = id}
    /\ \A rq \in {x \in ReadRequests : x.id = id /\ x.masks \in {{}, {<<a, None>>}}} :
          processReadRequest(Current', id, rq.path, rq.masks)
             = processReadRequest(Current, id, rq.path, rq.masks)

\* C39: a create, modify, insert or delete request for an object changes no
\* field row and no specification row of another object, and a read of
\* another object returns the same before and after the request
C39_ObjectIsolation ==
    [][(/\ last'.op # "repair"
        /\ <<id_table', tables', rows'>> # <<id_table, tables, rows>>)
       => \E id \in Ids : \A other \in Ids \ {id} : LeftAlone(other)]_vars

\* object 1 was deleted next to object 2, which is still there
C39_Witness ==
    /\ last.op = "drop"
    /\ last.err = ""
    /\ allIds(Current) = {2}
    /\ \E r \in DOMAIN rows : r.id = 2
    /\ \A r \in DOMAIN rows : r.id = 2

\* the two connections are at rest: no handler running, no transaction open
AtRest == \A c \in Conns : pair.conn[c].at = "idle" /\ ~pair.conn[c].transaction

\* the handler of c has executed a statement and has more to execute
Midway(c) == pair.conn[c].at \in {"refcount", "value"}

TwoConsistent ==
    /\ ~(Midway(1) /\ Midway(2))
    /\ Len(pair.refcounts) <= 1
    /\ AtRest => \/ pair.refcounts = <<>> /\ pair.values = 0
                 \/ Len(pair.refcounts) = 1 /\ pair.refcounts[1] = pair.values

\* C40: two Connections on one database whose engine serializes engine
\* transactions: the statements of a handler of one connection are never
\* interleaved with a handler of the other, there are never two specification
\* rows for one (id, field, type), and when both connections are at rest the
\* refcount is the number of value rows.
C40_TwoConnections == TwoConsistent

\* the same as long as every handler so far ran inside an engine transaction
\* of its connection
C40_InsideTransactions == ~pair.unscoped => TwoConsistent

====
